---- MODULE Spec2Model ----
(***************************************************************************)
(* rlox: a tree-walking interpreter for a small scripting language.        *)
(* This module models the Environment (src/src/environment.rs) and the     *)
(* Interpreter (src/src/interpreter.rs) over the AST of src/src/parser.rs. *)
(* Texts (String) are sequences of one-character strings, so that          *)
(* str::parse::<f64>, to_string and format! are computed, not assumed.     *)
(***************************************************************************)
EXTENDS Integers, Sequences, FiniteSets

VARIABLES
    statements,     \* interpret's argument: Vec<Stmt>
    index,          \* position of interpret's for loop in statements
    environment,    \* Interpreter.environment / the Environment under test
    output,         \* lines written to stdout by println!
    diagnostics,    \* lines written to stderr by Lox::report
    result,         \* what interpret returned: "Running" until it returns
    stmt_failed,    \* history: some call of execute has returned None
    ran_late,       \* history: execute was called after stmt_failed was set
    cond_failed,    \* history: the condition of an If or a While returned None
    call,           \* history: the last Environment method call and its outcome
    scanner,        \* the Scanner, and what scan_tokens returned
    parser,         \* the Parser, the list parse is building, what it returned
    given,          \* history: what the Parser's tokens were made from
    lox             \* the Lox of run_prompt, and the lines of its session

\* the variables of the scanner, the parser and the prompt
front == <<scanner, parser, given, lox>>

vars == <<statements, index, environment, output, diagnostics, result,
          stmt_failed, ran_late, cond_failed, call, front>>

----------------------------------------------------------------------------
(* Bounds of the model *)

\* longest chain of scopes built by the Environment specification
MaxDepth == 3
\* iterations one while loop may run before the model cuts the run off
MaxIter == 2
\* setup statements in front of, and observing statements behind, the
\* statement under test in a generated program
MaxSetup == 2
MaxObserve == 1

----------------------------------------------------------------------------
(* Option<T> and texts *)

None == <<>>
Some(v) == <<v>>
is_some(o) == o # None
unwrap(o) == o[1]

StrNil == <<"n", "i", "l">>
StrTrue == <<"t", "r", "u", "e">>
StrFalse == <<"f", "a", "l", "s", "e">>
StrInf == <<"i", "n", "f">>
StrInfinity == <<"i", "n", "f", "i", "n", "i", "t", "y">>
StrNan == <<"n", "a", "n">>
StrNaN == <<"N", "a", "N">>

DigitChars == <<"0", "1", "2", "3", "4", "5", "6", "7", "8", "9">>
IsDigit(c) == \E i \in DOMAIN DigitChars : DigitChars[i] = c
DigitVal(c) == (CHOOSE i \in DOMAIN DigitChars : DigitChars[i] = c) - 1

\* bool::to_string
bool_to_string(b) == IF b THEN StrTrue ELSE StrFalse

----------------------------------------------------------------------------
(* f64: the doubles of the model are the integers, with the sign of zero  *)
(* kept, as [neg, mag].  A text that parses to any other double (a         *)
(* fraction, an exponent, an infinity, a NaN) is recognised as a number,   *)
(* but arithmetic on it is outside the model ("Cut").                      *)

F64(neg, mag) == [neg |-> neg, mag |-> mag]
f64_int(a) == IF a.neg THEN 0 - a.mag ELSE a.mag
f64_of_int(n) == IF n < 0 THEN F64(TRUE, 0 - n) ELSE F64(FALSE, n)
f64_neg(a) == F64(~a.neg, a.mag)
f64_add(a, b) ==
    IF a.mag = 0 /\ b.mag = 0 THEN F64(a.neg /\ b.neg, 0)
    ELSE f64_of_int(f64_int(a) + f64_int(b))
f64_sub(a, b) == f64_add(a, f64_neg(b))
f64_mul(a, b) == F64(a.neg # b.neg, a.mag * b.mag)

\* the states of the decimal recogniser of <f64 as FromStr>::from_str:
\* [sign] (digits [. digits*] | . digits) [(e|E) [sign] digits]
DecStep(st, c) ==
    CASE st = "Start" ->
            IF c \in {"+", "-"} THEN "Sign"
            ELSE IF IsDigit(c) THEN "Int"
            ELSE IF c = "." THEN "Dot" ELSE "Bad"
      [] st = "Sign" ->
            IF IsDigit(c) THEN "Int"
            ELSE IF c = "." THEN "Dot" ELSE "Bad"
      [] st = "Int" ->
            IF IsDigit(c) THEN "Int"
            ELSE IF c = "." THEN "Frac"
            ELSE IF c \in {"e", "E"} THEN "E" ELSE "Bad"
      [] st = "Dot" -> IF IsDigit(c) THEN "Frac" ELSE "Bad"
      [] st = "Frac" ->
            IF IsDigit(c) THEN "Frac"
            ELSE IF c \in {"e", "E"} THEN "E" ELSE "Bad"
      [] st = "E" ->
            IF c \in {"+", "-"} THEN "ESign"
            ELSE IF IsDigit(c) THEN "Exp" ELSE "Bad"
      [] st = "ESign" -> IF IsDigit(c) THEN "Exp" ELSE "Bad"
      [] st = "Exp" -> IF IsDigit(c) THEN "Exp" ELSE "Bad"
      [] OTHER -> "Bad"

RECURSIVE DecRun(_, _, _)
DecRun(s, i, st) ==
    IF i > Len(s) THEN st ELSE DecRun(s, i + 1, DecStep(st, s[i]))

RECURSIVE DigitsVal(_, _, _)
DigitsVal(s, i, acc) ==
    IF i > Len(s) THEN acc ELSE DigitsVal(s, i + 1, acc * 10 + DigitVal(s[i]))

Unsigned(s) == IF Len(s) > 0 /\ s[1] \in {"+", "-"} THEN Tail(s) ELSE s

\* str::parse::<f64>: [ok] says whether Ok(_) is returned; [exact] whether
\* the double is one of the model's integers, then given by [num].
ParseF64(s) ==
    LET st == DecRun(s, 1, "Start")
        special == Unsigned(s) \in {StrInf, StrInfinity, StrNan, StrNaN}
        neg == Len(s) > 0 /\ s[1] = "-"
    IN  IF st = "Int"
        THEN [ok |-> TRUE, exact |-> TRUE,
              num |-> F64(neg, DigitsVal(Unsigned(s), 1, 0))]
        ELSE [ok |-> st \in {"Frac", "Exp"} \/ special, exact |-> FALSE,
              num |-> F64(FALSE, 0)]

RECURSIVE NatToString(_)
NatToString(n) ==
    IF n < 10 THEN <<DigitChars[n + 1]>>
    ELSE NatToString(n \div 10) \o <<DigitChars[(n % 10) + 1]>>

\* f64::to_string of one of the model's integers
f64_to_string(a) == (IF a.neg THEN <<"-">> ELSE <<>>) \o NatToString(a.mag)

----------------------------------------------------------------------------
(* Tokens (src/src/token.rs) *)

Token(token_type, lexeme, line) ==
    [token_type |-> token_type, lexeme |-> lexeme, line |-> line]

----------------------------------------------------------------------------
(* Lox::report and Lox::error write one line to stderr *)

report(line, where_, msg, arg) ==
    [line |-> line, where_ |-> where_, msg |-> msg, arg |-> arg]
error(line, msg, arg) == report(line, <<>>, msg, arg)

\* format!("at '{}'", lexeme)
at_quoted(lexeme) == <<"a", "t", " ", "'">> \o lexeme \o <<"'">>

----------------------------------------------------------------------------
(* Scanner (src/src/scanner.rs).  The source holds ASCII characters only,  *)
(* so that a position in characters is a position in bytes.  A Scanner is  *)
(* [source, start, current, line, tokens]; it also carries what            *)
(* scan_tokens returned: ret is "Running" until then, returned the tokens. *)

\* the character '\0'
Nul == "\\0"

Lower ==
    {"a", "b", "c", "d", "e", "f", "g", "h", "i", "j", "k", "l", "m",
     "n", "o", "p", "q", "r", "s", "t", "u", "v", "w", "x", "y", "z"}
Upper ==
    {"A", "B", "C", "D", "E", "F", "G", "H", "I", "J", "K", "L", "M",
     "N", "O", "P", "Q", "R", "S", "T", "U", "V", "W", "X", "Y", "Z"}

Scanner_is_digit(ch) == IsDigit(ch)
Scanner_is_alpha(ch) == ch \in Lower \cup Upper
Scanner_is_alpha_numeric(ch) ==
    Scanner_is_alpha(ch) \/ Scanner_is_digit(ch) \/ ch = "_"

\* the keywords table filled by Scanner::new
keywords ==
    {<<<<"a", "n", "d">>, "And">>, <<<<"w", "h", "i", "l", "e">>, "While">>,
     <<<<"v", "a", "r">>, "Var">>, <<StrTrue, "True">>,
     <<<<"p", "r", "i", "n", "t">>, "Print">>, <<<<"o", "r">>, "Or">>,
     <<StrNil, "Nil">>, <<<<"i", "f">>, "If">>, <<<<"f", "o", "r">>, "For">>,
     <<StrFalse, "False">>, <<<<"e", "l", "s", "e">>, "Else">>}

\* self.keywords.get(&lexeme).unwrap_or(&TokenType::Identifier)
keyword_or_identifier(lexeme) ==
    IF \E kw \in keywords : kw[1] = lexeme
    THEN (CHOOSE kw \in keywords : kw[1] = lexeme)[2]
    ELSE "Identifier"

Scanner_new(source) ==
    [source |-> source, start |-> 0, current |-> 0, line |-> 1,
     tokens |-> <<>>, ret |-> "Running", returned |-> <<>>]

\* source.chars().nth(n).unwrap_or('\0')
CharAt(source, n) == IF n < Len(source) THEN source[n + 1] ELSE Nul
\* source[from..to]
Slice(source, from, to) == SubSeq(source, from + 1, to)

Scanner_is_at_end(sc) == sc.current >= Len(sc.source)
Scanner_peek(sc) == CharAt(sc.source, sc.current)
Scanner_peek_next(sc) == CharAt(sc.source, sc.current + 1)
\* advance moves on; the character it returns is the one peek saw
Scanner_advance(sc) == [sc EXCEPT !.current = @ + 1]
\* a match_lexeme that does not compare the character
match_lexeme_any(sc, ch) == ~Scanner_is_at_end(sc)

\* the test of match_lexeme; where it holds match_lexeme advances
match_lexeme(sc, ch) == ~Scanner_is_at_end(sc) /\ Scanner_peek(sc) = ch

\* the outcome of scan_token: the Scanner, Ok(()) or Err(()), lines reported
ScanOk(sc) == [sc |-> sc, ok |-> TRUE, errs |-> <<>>]
ScanErr(sc, msg) ==
    [sc |-> sc, ok |-> FALSE, errs |-> <<error(sc.line, msg, <<>>)>>]

add_token(sc, token_type, lexeme, line) ==
    ScanOk([sc EXCEPT !.tokens = Append(@, Token(token_type, lexeme, line))])

\* a loop of identifier that stops at the first character that is no letter
RECURSIVE identifier_loop_letters(_)
identifier_loop_letters(sc) ==
    IF Scanner_is_alpha(Scanner_peek(sc))
    THEN identifier_loop_letters(Scanner_advance(sc))
    ELSE sc

RECURSIVE identifier_loop(_)
identifier_loop(sc) ==
    IF Scanner_is_alpha_numeric(Scanner_peek(sc))
    THEN identifier_loop(Scanner_advance(sc))
    ELSE sc

identifier_token(sc) ==
    add_token(sc, keyword_or_identifier(Slice(sc.source, sc.start, sc.current)),
              Slice(sc.source, sc.start, sc.current), sc.line)

identifier(sc) == identifier_token(identifier_loop(sc))

RECURSIVE digits_loop(_)
digits_loop(sc) ==
    IF Scanner_is_digit(Scanner_peek(sc))
    THEN digits_loop(Scanner_advance(sc))
    ELSE sc

number_fraction(sc) ==
    IF Scanner_peek(sc) = "." /\ Scanner_is_digit(Scanner_peek_next(sc))
    THEN digits_loop(Scanner_advance(sc))
    ELSE sc

number_token(sc) ==
    add_token(sc, "Number", Slice(sc.source, sc.start, sc.current), sc.line)

number(sc) == number_token(number_fraction(digits_loop(sc)))

RECURSIVE string_loop(_, _)
string_loop(sc, ch) ==
    IF Scanner_peek(sc) # ch /\ ~Scanner_is_at_end(sc)
    THEN string_loop(
            Scanner_advance([sc EXCEPT !.line =
                IF Scanner_peek(sc) = "\n" THEN @ + 1 ELSE @]), ch)
    ELSE sc

string_token(sc) ==
    IF Scanner_is_at_end(sc) THEN ScanErr(sc, "Unterminated string.")
    ELSE add_token(Scanner_advance(sc), "String",
                   Slice(sc.source, sc.start + 1, sc.current), sc.line)

Scanner_string(sc, ch) == string_token(string_loop(sc, ch))

\* the loop of the // arm
RECURSIVE line_comment_loop(_)
line_comment_loop(sc) ==
    IF Scanner_peek(sc) # "\n" /\ ~Scanner_is_at_end(sc)
    THEN line_comment_loop(Scanner_advance(sc))
    ELSE sc

\* the loop of the /* arm
RECURSIVE block_comment_loop(_)
block_comment_loop(sc) ==
    IF /\ Scanner_peek(sc) # "*"
       /\ Scanner_peek_next(sc) # "/"
       /\ ~Scanner_is_at_end(sc)
    THEN block_comment_loop(Scanner_advance(sc))
    ELSE sc

\* the '/' arm of scan_token, the '/' consumed
scan_slash(sc) ==
    IF match_lexeme(sc, "/")
    THEN ScanOk(line_comment_loop(Scanner_advance(sc)))
    ELSE IF match_lexeme(sc, "*")
    THEN ScanOk(Scanner_advance(Scanner_advance(
            block_comment_loop(Scanner_advance(sc)))))
    ELSE add_token(sc, "Slash", <<"/">>, sc.line)

\* the arms of scan_token that add one token for one character
SingleCharTokens ==
    {<<"(", "LeftParen">>, <<")", "RightParen">>, <<"{", "LeftBrace">>,
     <<"}", "RightBrace">>, <<",", "Comma">>, <<".", "Dot">>,
     <<"-", "Minus">>, <<"+", "Plus">>, <<";", "Semicolon">>,
     <<"*", "Star">>, <<"?", "Qmark">>, <<":", "Colon">>, <<Nul, "EOF">>}
SingleChars == {p[1] : p \in SingleCharTokens}
scan_single(sc, c) ==
    add_token(sc, (CHOOSE p \in SingleCharTokens : p[1] = c)[2], <<c>>, sc.line)

\* the arms for '=', '!', '<' and '>'
OperatorTokens ==
    {<<"=", "Equal", "EqualEqual">>, <<"!", "Bang", "BangEqual">>,
     <<"<", "Less", "LessEqual">>, <<">", "Greater", "GreaterEqual">>}
OperatorChars == {p[1] : p \in OperatorTokens}
scan_operator(sc, c) ==
    IF match_lexeme(sc, "=")
    THEN add_token(Scanner_advance(sc),
                   (CHOOSE p \in OperatorTokens : p[1] = c)[3],
                   <<c, "=">>, sc.line)
    ELSE add_token(sc, (CHOOSE p \in OperatorTokens : p[1] = c)[2],
                   <<c>>, sc.line)

BlankChars == {" ", "\t", "\r"}
\* the backtick is written by its name: a string cannot hold the character
Backtick == "backtick"
QuoteChars == {Backtick, "\"", "'"}

\* scan_token, with c the character advance returns
scan_token_char(sc, c) ==
    IF c \in SingleChars THEN scan_single(sc, c)
    ELSE IF c = "/" THEN scan_slash(sc)
    ELSE IF c \in OperatorChars THEN scan_operator(sc, c)
    ELSE IF c \in BlankChars THEN ScanOk(sc)
    ELSE IF c \in QuoteChars THEN Scanner_string(sc, c)
    ELSE IF c = "\n" THEN ScanOk([sc EXCEPT !.line = @ + 1])
    ELSE IF Scanner_is_digit(c) THEN number(sc)
    ELSE IF Scanner_is_alpha(c) THEN identifier(sc)
    ELSE ScanErr(sc, "Unexpected Character.")

scan_token(sc) == scan_token_char(Scanner_advance(sc), Scanner_peek(sc))

\* scan_tokens after its loop
scan_tokens_end(sc) ==
    [sc EXCEPT !.tokens = Append(@, Token("EOF", <<Nul>>, sc.line)),
               !.ret = "Some",
               !.returned = Append(sc.tokens, Token("EOF", <<Nul>>, sc.line))]

\* one iteration of the loop of scan_tokens
scan_tokens_step(sc) == scan_token([sc EXCEPT !.start = sc.current])

\* scan_tokens: [sc, errs], sc.ret and sc.returned what it returns
RECURSIVE scan_tokens_loop(_, _)
scan_tokens_loop(sc, errs) ==
    IF Scanner_is_at_end(sc) THEN [sc |-> scan_tokens_end(sc), errs |-> errs]
    ELSE IF scan_tokens_step(sc).ok
    THEN scan_tokens_loop(scan_tokens_step(sc).sc, errs)
    ELSE [sc |-> [scan_tokens_step(sc).sc EXCEPT !.ret = "None"],
          errs |-> errs \o scan_tokens_step(sc).errs]

scan_tokens(source) == scan_tokens_loop(Scanner_new(source), <<>>)

----------------------------------------------------------------------------
(* Environment (src/src/environment.rs): a scope owns its enclosing scope *)

EmptyMap == [n \in {} |-> <<>>]
Insert(map, key, value) ==
    [k \in (DOMAIN map) \cup {key} |-> IF k = key THEN value ELSE map[k]]

Environment_new == [values |-> EmptyMap, enclosing |-> None]
with_enclosing(enclosing) == [values |-> EmptyMap, enclosing |-> Some(enclosing)]

define(env, name, value) == [env EXCEPT !.values = Insert(@, name, value)]

\* With(v, K) is K(v): it names the result of a call once
With(v, K(_)) == K(v)

\* a get in which the outermost scope that defines the name wins
RECURSIVE get_outer_first(_, _)
get_outer_first(env, name) ==
    With(IF is_some(env.enclosing)
         THEN get_outer_first(unwrap(env.enclosing), name)
         ELSE [env |-> env, ret |-> None, errs |-> <<>>],
         LAMBDA val :
            IF is_some(val.ret)
            THEN [env |-> env, ret |-> val.ret, errs |-> <<>>]
            ELSE IF name.lexeme \in DOMAIN env.values
            THEN [env |-> env, ret |-> Some(env.values[name.lexeme]),
                  errs |-> <<>>]
            ELSE [env |-> env, ret |-> None,
                  errs |-> Append(val.errs,
                      error(name.line, "Undefined Variable", name.lexeme))])

\* get takes &mut self: it returns [env |-> self afterwards,
\* ret |-> Option<String>, errs |-> the lines it reported]
RECURSIVE get(_, _)
get(env, name) ==
    IF name.lexeme \in DOMAIN env.values
    THEN [env |-> env, ret |-> Some(env.values[name.lexeme]), errs |-> <<>>]
    ELSE With(IF is_some(env.enclosing)
              THEN get(unwrap(env.enclosing), name)
              ELSE [env |-> env, ret |-> None, errs |-> <<>>],
              LAMBDA val :
                IF is_some(val.ret)
                THEN [env |-> [env EXCEPT !.enclosing = Some(val.env)],
                      ret |-> val.ret, errs |-> val.errs]
                ELSE [env |-> IF is_some(env.enclosing)
                              THEN [env EXCEPT !.enclosing = Some(val.env)]
                              ELSE env,
                      ret |-> None,
                      errs |-> Append(val.errs,
                          error(name.line, "Undefined Variable", name.lexeme))])

\* an assign that goes on to the enclosing scopes after writing the current
\* one, and so writes every scope that defines the name
RECURSIVE assign_every_scope(_, _, _)
assign_every_scope(env, name, value) ==
    With(IF name.lexeme \in DOMAIN env.values
         THEN [env EXCEPT !.values = Insert(@, name.lexeme, value)]
         ELSE env,
         LAMBDA here :
            IF is_some(here.enclosing)
            THEN With(assign_every_scope(unwrap(here.enclosing), name, value),
                      LAMBDA inner :
                        [env |-> [here EXCEPT !.enclosing = Some(inner.env)],
                         ret |-> Some(<<>>), errs |-> inner.errs])
            ELSE IF name.lexeme \in DOMAIN env.values
            THEN [env |-> here, ret |-> Some(<<>>), errs |-> <<>>]
            ELSE [env |-> here, ret |-> None,
                  errs |-> <<report(name.line, at_quoted(name.lexeme),
                                    "Undefined Variable", name.lexeme)>>])

\* assign returns [env |-> self afterwards, ret |-> Option<()>, errs |-> ...]
RECURSIVE assign(_, _, _)
assign(env, name, value) ==
    IF name.lexeme \in DOMAIN env.values
    THEN [env |-> [env EXCEPT !.values = Insert(@, name.lexeme, value)],
          ret |-> Some(<<>>), errs |-> <<>>]
    ELSE IF is_some(env.enclosing)
    THEN With(assign(unwrap(env.enclosing), name, value),
              LAMBDA inner :
                [env |-> [env EXCEPT !.enclosing = Some(inner.env)],
                 ret |-> Some(<<>>), errs |-> inner.errs])
    ELSE [env |-> env, ret |-> None,
          errs |-> <<report(name.line, at_quoted(name.lexeme),
                            "Undefined Variable", name.lexeme)>>]

\* the scopes of a chain, current scope first, global scope last
RECURSIVE Chain(_)
Chain(env) ==
    <<env.values>> \o
        (IF is_some(env.enclosing) THEN Chain(unwrap(env.enclosing)) ELSE <<>>)

Depth(env) == Len(Chain(env))

----------------------------------------------------------------------------
(* The AST (src/src/parser.rs) *)

Literal(value) == [expr |-> "Literal", value |-> value]
Variable(name) == [expr |-> "Variable", name |-> name]
Grouping(expression) == [expr |-> "Grouping", expression |-> expression]
Unary(operator, right) ==
    [expr |-> "Unary", operator |-> operator, right |-> right]
Binary(left, operator, right) ==
    [expr |-> "Binary", left |-> left, operator |-> operator, right |-> right]
Ternary(condition, left, right) ==
    [expr |-> "Ternary", condition |-> condition, left |-> left, right |-> right]
Assign(name, value) == [expr |-> "Assign", name |-> name, value |-> value]
Logical(left, operator, right) ==
    [expr |-> "Logical", left |-> left, operator |-> operator, right |-> right]

Expression(expression) == [stmt |-> "Expression", expression |-> expression]
PrintStmt(expression) == [stmt |-> "Print", expression |-> expression]
Let(name, initializer) ==
    [stmt |-> "Let", name |-> name, initializer |-> initializer]
Block(stmts) == [stmt |-> "Block", statements |-> stmts]
If(condition, then, else_) ==
    [stmt |-> "If", condition |-> condition, then |-> then, else_ |-> else_]
While(condition, body) ==
    [stmt |-> "While", condition |-> condition, body |-> body]

----------------------------------------------------------------------------
(* Interpreter (src/src/interpreter.rs).                                   *)
(* A call works on the interpreter's state s = [environment, output,       *)
(* diagnostics and the history flags] and returns [s, r, val]: r is        *)
(* "Some" or "None" as the Option returned, "Panic" when the call unwinds  *)
(* with a panic, "Cut" when the run leaves the bounds of the model.        *)

Ok(s, v) == [s |-> s, r |-> "Some", val |-> v]
Fail(s) == [s |-> s, r |-> "None", val |-> <<>>]
Panic(s) == [s |-> s, r |-> "Panic", val |-> <<>>]
Cut(s) == [s |-> s, r |-> "Cut", val |-> <<>>]
Abrupt(res) == res.r \in {"Panic", "Cut"}

Reported(s, errs) == [s EXCEPT !.diagnostics = @ \o errs]

is_truthy(object) == object # StrNil /\ object # StrFalse

is_equals(a, b) ==
    IF a = StrNil /\ b = StrNil THEN TRUE
    ELSE IF a = StrNil THEN FALSE
    ELSE a = b

is_number(string) == ParseF64(string).ok
is_alpha(string) == ~ParseF64(string).ok

\* a check_number_operand that tests is_err where the code tests is_ok
check_number_operand_inverted(operator, operand, s) ==
    IF ~ParseF64(operand).ok THEN Ok(s, <<>>)
    ELSE Fail(Reported(s, <<report(operator.line,
                                   at_quoted(operator.lexeme) \o <<" ">>,
                                   "Operand must be a number.", <<>>)>>))

check_number_operand(operator, operand, s) ==
    IF ParseF64(operand).ok THEN Ok(s, <<>>)
    ELSE Fail(Reported(s, <<report(operator.line,
                                   at_quoted(operator.lexeme) \o <<" ">>,
                                   "Operand must be a number.", <<>>)>>))

check_number_operands(operator, operand1, operand2, s) ==
    IF ParseF64(operand1).ok /\ ParseF64(operand2).ok THEN Ok(s, <<>>)
    ELSE Fail(Reported(s, <<report(operator.line, operator.lexeme,
                                   "Operands must be number.", <<>>)>>))

\* left / right on doubles: the quotient when it is an integer, the text of
\* an infinity or NaN when right is zero
f64_div_text(a, b, s) ==
    IF b.mag = 0
    THEN IF a.mag = 0 THEN Ok(s, StrNaN)
         ELSE Ok(s, (IF a.neg # b.neg THEN <<"-">> ELSE <<>>) \o StrInf)
    ELSE IF a.mag % b.mag = 0
    THEN Ok(s, f64_to_string(F64(a.neg # b.neg, a.mag \div b.mag)))
    ELSE Cut(s)

\* the arms of eval_binary that parse both operands and unwrap the doubles
Arith(op, left, right, s) ==
    LET l == ParseF64(left)
        r == ParseF64(right)
        t == op.token_type
    IN  IF ~(l.ok /\ r.ok) THEN Panic(s)
        ELSE IF ~(l.exact /\ r.exact) THEN Cut(s)
        ELSE CASE t = "Greater" ->
                    Ok(s, bool_to_string(f64_int(l.num) > f64_int(r.num)))
               [] t = "GreaterEqual" ->
                    Ok(s, bool_to_string(f64_int(l.num) >= f64_int(r.num)))
               [] t = "Less" ->
                    Ok(s, bool_to_string(f64_int(l.num) < f64_int(r.num)))
               [] t = "LessEqual" ->
                    Ok(s, bool_to_string(f64_int(l.num) <= f64_int(r.num)))
               [] t = "Minus" -> Ok(s, f64_to_string(f64_sub(l.num, r.num)))
               [] t = "Star" -> Ok(s, f64_to_string(f64_mul(l.num, r.num)))
               [] t = "Plus" -> Ok(s, f64_to_string(f64_add(l.num, r.num)))
               [] t = "Slash" -> f64_div_text(l.num, r.num, s)

RECURSIVE evaluate(_, _)

eval_literal(literal, s) == Ok(s, literal)

eval_group(expr, s) == evaluate(expr, s)

\* an eval_logical that evaluates both operands before it looks at the left one
eval_logical_eager(left, operator, right, s) ==
    With(evaluate(left, s), LAMBDA l :
        IF l.r # "Some" THEN l
        ELSE With(evaluate(right, l.s), LAMBDA r :
                IF r.r # "Some" THEN r
                ELSE IF operator.token_type = "Or"
                THEN IF is_truthy(l.val) THEN Ok(r.s, l.val) ELSE r
                ELSE IF ~is_truthy(l.val) THEN Ok(r.s, l.val) ELSE r))

eval_logical(left, operator, right, s) ==
    With(evaluate(left, s), LAMBDA l :
        IF l.r # "Some" THEN l
        ELSE IF operator.token_type = "Or"
        THEN IF is_truthy(l.val) THEN l ELSE evaluate(right, l.s)
        ELSE IF ~is_truthy(l.val) THEN l ELSE evaluate(right, l.s))

\* the match of eval_binary on the operator, both operands evaluated
eval_binary_op(op, left, right, s) ==
    IF op.token_type \in {"Greater", "GreaterEqual", "Less", "LessEqual",
                          "Minus", "Slash", "Star"}
    THEN With(check_number_operands(op, left, right, s), LAMBDA chk :
            IF chk.r = "None" THEN chk ELSE Arith(op, left, right, s))
    ELSE IF op.token_type = "BangEqual"
    THEN Ok(s, bool_to_string(~is_equals(left, right)))
    ELSE IF op.token_type = "EqualEqual"
    THEN Ok(s, bool_to_string(is_equals(left, right)))
    ELSE IF op.token_type = "Plus"
    THEN IF is_number(left) /\ is_number(right)
         THEN Arith(op, left, right, s)
         ELSE IF is_alpha(left) \/ is_alpha(right)
         THEN Ok(s, left \o right)
         ELSE Fail(Reported(s, <<report(op.line, op.lexeme,
                "Operands must be two numbers or two strings.", <<>>)>>))
    ELSE Panic(s)

eval_binary(left, op, right, s) ==
    With(evaluate(left, s), LAMBDA l :
        IF l.r # "Some" THEN l
        ELSE With(evaluate(right, l.s), LAMBDA r :
                IF r.r # "Some" THEN r
                ELSE eval_binary_op(op, l.val, r.val, r.s)))

eval_unary(operator, right, s) ==
    With(evaluate(right, s), LAMBDA r :
        IF Abrupt(r) THEN r
        ELSE IF r.r = "None" THEN Panic(r.s)
        ELSE IF operator.token_type = "Minus"
        THEN With(check_number_operand(operator, r.val, r.s), LAMBDA chk :
                IF chk.r = "None" THEN chk
                ELSE IF ~ParseF64(r.val).ok THEN Panic(r.s)
                ELSE IF ~ParseF64(r.val).exact THEN Cut(r.s)
                ELSE Ok(r.s, f64_to_string(f64_neg(ParseF64(r.val).num))))
        ELSE IF operator.token_type = "Bang"
        THEN Ok(r.s, bool_to_string(~is_truthy(r.val)))
        ELSE Panic(r.s))

eval_ternary(condition, left, right, s) ==
    With(evaluate(condition, s), LAMBDA c :
        IF Abrupt(c) THEN c
        ELSE IF c.r = "None" THEN Panic(c.s)
        ELSE IF is_truthy(c.val) THEN evaluate(left, c.s)
        ELSE evaluate(right, c.s))

\* the Variable arm of evaluate
eval_variable(var, s) ==
    With(get(s.environment, var), LAMBDA value :
        IF value.ret = None
        THEN Fail(Reported([s EXCEPT !.environment = value.env], value.errs))
        ELSE Ok(Reported([s EXCEPT !.environment = value.env], value.errs),
                unwrap(value.ret)))

\* the Assign arm of evaluate
eval_assign(name, expr, s) ==
    With(evaluate(expr, s), LAMBDA value :
        IF value.r # "Some" THEN value
        ELSE With(assign(value.s.environment, name, value.val), LAMBDA a :
                Ok(Reported([value.s EXCEPT !.environment = a.env], a.errs),
                   value.val)))

evaluate(expr, s) ==
    CASE expr.expr = "Binary" ->
            eval_binary(expr.left, expr.operator, expr.right, s)
      [] expr.expr = "Literal" -> eval_literal(expr.value, s)
      [] expr.expr = "Grouping" -> eval_group(expr.expression, s)
      [] expr.expr = "Unary" -> eval_unary(expr.operator, expr.right, s)
      [] expr.expr = "Ternary" ->
            eval_ternary(expr.condition, expr.left, expr.right, s)
      [] expr.expr = "Variable" -> eval_variable(expr.name, s)
      [] expr.expr = "Assign" -> eval_assign(expr.name, expr.value, s)
      [] expr.expr = "Logical" ->
            eval_logical(expr.left, expr.operator, expr.right, s)

----------------------------------------------------------------------------
(* Statements *)

RECURSIVE execute(_, _)
RECURSIVE execute_block_loop(_, _, _, _)
RECURSIVE while_loop(_, _, _, _)

let_statement(token, expr, s) ==
    IF expr = None
    THEN Ok([s EXCEPT !.environment = define(@, token.lexeme, StrNil)], <<>>)
    ELSE With(evaluate(unwrap(expr), s), LAMBDA v :
            IF Abrupt(v) THEN v
            ELSE Ok([v.s EXCEPT !.environment =
                        define(@, token.lexeme,
                               IF v.r = "Some" THEN v.val ELSE StrNil)],
                    <<>>))

\* the for loop of execute_block and the assignment that follows it
execute_block_loop(stmts, i, cur, s) ==
    IF i > Len(stmts) THEN Ok([s EXCEPT !.environment = cur], <<>>)
    ELSE With(execute(stmts[i], s), LAMBDA res :
            IF res.r # "Some" THEN res
            ELSE IF res.s.environment.enclosing = None THEN Panic(res.s)
            ELSE execute_block_loop(stmts, i + 1,
                     unwrap(res.s.environment.enclosing), res.s))

\* execute_block, had it put back the environment the block was entered from
execute_block_restore(stmts, env, s) ==
    With(execute_block_loop(stmts, 1, env, [s EXCEPT !.environment = env]),
         LAMBDA res :
            IF res.r # "Some" THEN res
            ELSE Ok([res.s EXCEPT !.environment = s.environment], <<>>))

execute_block(stmts, env, s) ==
    execute_block_loop(stmts, 1, env, [s EXCEPT !.environment = env])

\* the loop of while_statement, with the iterations the model still allows
while_loop(condition, body, s, fuel) ==
    With(evaluate(condition, s), LAMBDA c :
        IF Abrupt(c) THEN c
        ELSE IF c.r = "None" THEN Panic([c.s EXCEPT !.cond_failed = TRUE])
        ELSE IF ~is_truthy(c.val) THEN Ok(c.s, <<>>)
        ELSE IF fuel = 0 THEN Cut(c.s)
        ELSE With(execute(body, c.s), LAMBDA b :
                IF Abrupt(b) THEN b
                ELSE while_loop(condition, body, b.s, fuel - 1)))

while_statement(condition, body, s) == while_loop(condition, body, s, MaxIter)

if_statement(condition, then, else_, s) ==
    With(evaluate(condition, s), LAMBDA cond :
        IF cond.r = "None" THEN Fail([cond.s EXCEPT !.cond_failed = TRUE])
        ELSE IF Abrupt(cond) THEN cond
        ELSE IF is_truthy(cond.val) THEN execute(then, cond.s)
        ELSE IF is_some(else_) THEN execute(unwrap(else_), cond.s)
        ELSE Ok(cond.s, <<>>))

\* println!("{}", res.unwrap())
println(s, text) == [s EXCEPT !.output = Append(@, text)]

\* the match of execute on the statement
execute_match(stmt, s) ==
    CASE stmt.stmt = "Expression" ->
            With(evaluate(stmt.expression, s), LAMBDA e :
                IF e.r = "Some" THEN Ok(e.s, <<>>) ELSE e)
      [] stmt.stmt = "Print" ->
            With(evaluate(stmt.expression, s), LAMBDA e :
                IF e.r = "Some" THEN Ok(println(e.s, e.val), <<>>) ELSE e)
      [] stmt.stmt = "Let" -> let_statement(stmt.name, stmt.initializer, s)
      [] stmt.stmt = "Block" ->
            execute_block(stmt.statements, with_enclosing(s.environment), s)
      [] stmt.stmt = "If" ->
            if_statement(stmt.condition, stmt.then, stmt.else_, s)
      [] stmt.stmt = "While" -> while_statement(stmt.condition, stmt.body, s)

\* execute, with the history of failures: ran_late is set when a call starts
\* after some call has returned None, stmt_failed when this call returns None
\* (cond_failed is set where if_statement and while_statement evaluate)
execute(stmt, s) ==
    With(execute_match(stmt, [s EXCEPT !.ran_late = @ \/ s.stmt_failed]),
         LAMBDA res :
            IF res.r = "None" THEN [res EXCEPT !.s.stmt_failed = TRUE] ELSE res)

----------------------------------------------------------------------------
(* Parser (src/src/parser.rs).  A Parser is [tokens, current] and, for the *)
(* model, errs: the lines its calls wrote to stderr.  A method returns     *)
(* [p, r, val]: the Parser after the call, r "Some" or "None" as the       *)
(* Option returned, "Panic" when the call unwinds with a panic.  The       *)
(* tokens end with an EOF token, as those of scan_tokens do.               *)

Parser_new(tokens) == [tokens |-> tokens, current |-> 0, errs |-> <<>>]

Parser_peek(p) == p.tokens[p.current + 1]
\* called after a token was consumed only, so that current - 1 exists
previous(p) == p.tokens[p.current]
Parser_is_at_end(p) == Parser_peek(p).token_type = "EOF"
Parser_advance(p) ==
    IF ~Parser_is_at_end(p) THEN [p EXCEPT !.current = @ + 1] ELSE p
check(p, type_) ==
    IF Parser_is_at_end(p) THEN FALSE ELSE Parser_peek(p).token_type = type_
\* whether match_tokens returns true; it has then called advance
match_tokens(p, types) == \E type_ \in types : check(p, type_)

Parsed(p, v) == [p |-> p, r |-> "Some", val |-> v]
NotParsed(p) == [p |-> p, r |-> "None", val |-> <<>>]
Unwound(p) == [p |-> p, r |-> "Panic", val |-> <<>>]
Complain(p, line) == [p EXCEPT !.errs = Append(@, line)]

\* format!("{:?}", token)
debug_token(token) ==
    <<"Token { token_type: ", token.token_type, ", lexeme: ">>
    \o token.lexeme \o <<", line: ">> \o NatToString(token.line) \o <<" }">>

consume(p, type_, msg) ==
    IF check(p, type_) THEN Parsed(Parser_advance(p), Parser_peek(p))
    ELSE NotParsed(Complain(p, error(Parser_peek(p).line, msg, <<>>)))

RECURSIVE synchronize_loop(_)
synchronize_loop(p) ==
    IF Parser_is_at_end(p) THEN p
    ELSE IF previous(p).token_type = "Semicolon" THEN p
    ELSE IF Parser_peek(p).token_type \in {"Var", "For", "If", "While", "Print"}
    THEN p
    ELSE synchronize_loop(Parser_advance(p))

synchronize(p) == synchronize_loop(Parser_advance(p))

\* self(method, p) is the call self.method() on the Parser p: the methods call
\* each other in a circle, and every such call goes through this one operator
RECURSIVE self(_, _)

RECURSIVE or_loop(_, _), and_loop(_, _), equality_loop(_, _),
          comparison_loop(_, _), term_loop(_, _), factor_loop(_, _)

primary(p) ==
    IF match_tokens(p, {"False"})
    THEN Parsed(Parser_advance(p), Literal(StrFalse))
    ELSE IF match_tokens(p, {"True"})
    THEN Parsed(Parser_advance(p), Literal(StrTrue))
    ELSE IF match_tokens(p, {"Nil"})
    THEN Parsed(Parser_advance(p), Literal(StrNil))
    ELSE IF match_tokens(p, {"Number", "String"})
    THEN Parsed(Parser_advance(p), Literal(Parser_peek(p).lexeme))
    ELSE IF match_tokens(p, {"LeftParen"})
    THEN With(self("expression", Parser_advance(p)), LAMBDA expr :
            \* self.expression().unwrap()
            IF expr.r # "Some" THEN Unwound(expr.p)
            ELSE Parsed(consume(expr.p, "RightParen",
                                "Expect ')' after expression.").p,
                        Grouping(expr.val)))
    ELSE IF match_tokens(p, {"Identifier"})
    THEN Parsed(Parser_advance(p), Variable(Parser_peek(p)))
    ELSE NotParsed(Complain(p,
            error(Parser_peek(p).line, "Expect expression. got {} instead",
                  Parser_peek(p).lexeme)))

unary(p) ==
    IF match_tokens(p, {"Bang", "Minus"})
    THEN With(self("unary", Parser_advance(p)), LAMBDA right :
            IF right.r # "Some" THEN right
            ELSE Parsed(right.p, Unary(Parser_peek(p), right.val)))
    ELSE self("primary", p)

factor_loop(p, expr) ==
    IF match_tokens(p, {"Slash", "Star"})
    THEN With(self("unary", Parser_advance(p)), LAMBDA right :
            IF right.r = "Panic" THEN right
            ELSE IF right.r = "None" THEN Parsed(right.p, expr)
            ELSE factor_loop(right.p,
                             Binary(expr, Parser_peek(p), right.val)))
    ELSE Parsed(p, expr)

factor(p) ==
    With(self("unary", p), LAMBDA expr :
        IF expr.r # "Some" THEN expr ELSE factor_loop(expr.p, expr.val))

\* a term whose operators group to the right
term_loop_right(p, expr) ==
    IF match_tokens(p, {"Minus", "Plus"})
    THEN With(self("term", Parser_advance(p)), LAMBDA right :
            IF right.r # "Some" THEN right
            ELSE Parsed(right.p, Binary(expr, Parser_peek(p), right.val)))
    ELSE Parsed(p, expr)

term_loop(p, expr) ==
    IF match_tokens(p, {"Minus", "Plus"})
    THEN With(self("factor", Parser_advance(p)), LAMBDA right :
            IF right.r # "Some" THEN right
            ELSE term_loop(right.p, Binary(expr, Parser_peek(p), right.val)))
    ELSE Parsed(p, expr)

term(p) ==
    With(self("factor", p), LAMBDA expr :
        IF expr.r # "Some" THEN expr ELSE term_loop(expr.p, expr.val))

comparison_loop(p, expr) ==
    IF match_tokens(p, {"Greater", "GreaterEqual", "Less", "LessEqual"})
    THEN With(self("term", Parser_advance(p)), LAMBDA right :
            IF right.r = "Panic" THEN right
            ELSE IF right.r = "None" THEN Parsed(right.p, expr)
            ELSE comparison_loop(right.p,
                                 Binary(expr, Parser_peek(p), right.val)))
    ELSE Parsed(p, expr)

comparison(p) ==
    With(self("term", p), LAMBDA expr :
        IF expr.r # "Some" THEN expr ELSE comparison_loop(expr.p, expr.val))

equality_loop(p, expr) ==
    IF match_tokens(p, {"BangEqual", "EqualEqual"})
    THEN With(self("comparison", Parser_advance(p)), LAMBDA right :
            IF right.r = "Panic" THEN right
            ELSE IF right.r = "None" THEN Parsed(right.p, expr)
            ELSE equality_loop(right.p,
                               Binary(expr, Parser_peek(p), right.val)))
    ELSE Parsed(p, expr)

equality(p) ==
    With(self("comparison", p), LAMBDA expr :
        IF expr.r # "Some" THEN expr ELSE equality_loop(expr.p, expr.val))

\* what ternary does once it has the value after ':'
ternary_right(condition, left, right) ==
    IF right.r = "Panic" THEN right
    ELSE IF right.r = "None"
    THEN NotParsed(Complain(right.p,
            error(Parser_peek(right.p).line,
                  "Expect a expression after :. got '{:?}' instead.",
                  debug_token(Parser_peek(right.p)))))
    ELSE Parsed(right.p, Ternary(condition.val, left.val, right.val))

\* what ternary does once it has the value after '?'
ternary_left(condition, left) ==
    IF left.r = "Panic" THEN left
    ELSE IF left.r = "None"
    THEN NotParsed(Complain(left.p,
            error(Parser_peek(left.p).line, "Expect a expression after ?",
                  <<>>)))
    ELSE IF ~match_tokens(left.p, {"Colon"})
    THEN NotParsed(Complain(left.p,
            error(Parser_peek(left.p).line,
                  "Expect : after ternary expression. got '{:?}' instead.",
                  debug_token(Parser_peek(left.p)))))
    ELSE With(self("ternary", Parser_advance(left.p)), LAMBDA right :
            ternary_right(condition, left, right))

ternary(p) ==
    With(self("equality", p), LAMBDA condition :
        IF condition.r # "Some" THEN condition
        ELSE IF ~match_tokens(condition.p, {"Qmark"}) THEN condition
        ELSE With(self("primary", Parser_advance(condition.p)), LAMBDA left :
                ternary_left(condition, left)))

and_loop(p, expr) ==
    IF match_tokens(p, {"And"})
    THEN With(self("equality", Parser_advance(p)), LAMBDA right :
            IF right.r = "Panic" THEN right
            ELSE IF right.r = "None" THEN Parsed(right.p, expr)
            ELSE and_loop(right.p, Logical(expr, Parser_peek(p), right.val)))
    ELSE Parsed(p, expr)

and(p) ==
    With(self("ternary", p), LAMBDA expr :
        IF expr.r # "Some" THEN expr ELSE and_loop(expr.p, expr.val))

or_loop(p, expr) ==
    IF match_tokens(p, {"Or"})
    THEN With(self("and", Parser_advance(p)), LAMBDA right :
            IF right.r = "Panic" THEN right
            ELSE IF right.r = "None" THEN Parsed(right.p, expr)
            ELSE or_loop(right.p, Logical(expr, Parser_peek(p), right.val)))
    ELSE Parsed(p, expr)

or(p) ==
    With(self("and", p), LAMBDA expr :
        IF expr.r # "Some" THEN expr ELSE or_loop(expr.p, expr.val))

\* what assignment does once it has the value after '='
assignment_value(expr, value) ==
    IF value.r # "Some" THEN value
    ELSE IF expr.val.expr = "Variable"
    THEN Parsed(value.p, Assign(expr.val.name, value.val))
    ELSE NotParsed(Complain(value.p,
            report(Parser_peek(expr.p).line,
                   at_quoted(Parser_peek(expr.p).lexeme),
                   "Invalid assignment Target.", <<>>)))

assignment(p) ==
    With(self("or", p), LAMBDA expr :
        IF expr.r # "Some" THEN expr
        ELSE IF match_tokens(expr.p, {"Equal"})
        THEN With(self("assignment", Parser_advance(expr.p)), LAMBDA value :
                assignment_value(expr, value))
        ELSE expr)

expression(p) == assignment(p)

\* while self.peek().token_type == TokenType::Semicolon { self.advance(); }
RECURSIVE semicolons(_)
semicolons(p) ==
    IF Parser_peek(p).token_type = "Semicolon"
    THEN semicolons(Parser_advance(p))
    ELSE p

\* if self.peek().token_type == TokenType::Semicolon { self.advance(); }
semicolon(p) ==
    IF Parser_peek(p).token_type = "Semicolon" THEN Parser_advance(p) ELSE p

print_statement(p) ==
    With(self("expression", p), LAMBDA value :
        IF value.r = "Panic" THEN value
        ELSE IF value.r = "None" THEN NotParsed(semicolons(value.p))
        ELSE Parsed(semicolons(value.p), PrintStmt(value.val)))

\* expression_statement, had it answered a failed expression with a nil
\* statement and no token consumed
expression_statement_lenient(p) ==
    With(self("expression", p), LAMBDA value :
        IF value.r = "Panic" THEN value
        ELSE IF value.r = "None" THEN Parsed(p, Expression(Literal(StrNil)))
        ELSE Parsed(semicolon(value.p), Expression(value.val)))

expression_statement(p) ==
    With(self("expression", p), LAMBDA value :
        IF value.r = "Panic" THEN value
        ELSE IF value.r = "None" THEN NotParsed(semicolon(value.p))
        ELSE Parsed(semicolon(value.p), Expression(value.val)))

\* var_declaration once it has the identifier
var_initializer(ident) ==
    IF match_tokens(ident.p, {"Equal"})
    THEN With(self("expression", Parser_advance(ident.p)), LAMBDA expr :
            IF expr.r # "Some" THEN expr
            ELSE Parsed(semicolons(expr.p), Let(ident.val, Some(expr.val))))
    ELSE Parsed(semicolons(ident.p), Let(ident.val, None))

var_declaration(p) ==
    With(consume(p, "Identifier", "Expect identifier after 'var'"),
         LAMBDA ident :
            IF ident.r = "None" THEN ident ELSE var_initializer(ident))

RECURSIVE block_loop(_, _)

block_loop(p, stmts) ==
    IF ~check(p, "RightBrace") /\ ~Parser_is_at_end(p)
    THEN With(self("declaration", p), LAMBDA decl :
            IF decl.r # "Some" THEN decl
            ELSE block_loop(decl.p, Append(stmts, decl.val)))
    ELSE Parsed(consume(p, "RightBrace", "Expect '}' after block.").p, stmts)

block(p) == block_loop(p, <<>>)

\* the initializer clause: None also when the clause is empty
for_initializer(p) ==
    IF match_tokens(p, {"Semicolon"}) THEN NotParsed(Parser_advance(p))
    ELSE IF match_tokens(p, {"Var"}) THEN self("var_declaration", Parser_advance(p))
    ELSE self("expression_statement", p)

\* the condition and the increment clause: None also when the clause is empty
for_clause(p, closing) ==
    IF ~check(p, closing) THEN self("expression", p) ELSE NotParsed(p)

\* the tree for_statement builds from its clauses and its body
for_increment(increment, body) ==
    IF increment.r = "Some"
    THEN Block(<<body, Expression(increment.val)>>)
    ELSE body
for_condition(condition) ==
    IF condition.r = "Some" THEN condition.val ELSE Literal(StrTrue)
for_desugar(initializer, condition, increment, body) ==
    IF initializer.r = "Some"
    THEN Block(<<initializer.val,
                 While(for_condition(condition),
                       for_increment(increment, body))>>)
    ELSE While(for_condition(condition), for_increment(increment, body))

\* for_statement from the increment clause on
for_body(initializer, condition, p) ==
    With(for_clause(p, "RightParen"), LAMBDA increment :
        IF increment.r = "Panic" THEN increment
        ELSE With(consume(increment.p, "RightParen",
                          "Expect ')' after for clauses."),
                  LAMBDA close :
                IF close.r = "None" THEN close
                ELSE With(self("statement", close.p), LAMBDA body_outer :
                        IF body_outer.r # "Some" THEN body_outer
                        ELSE Parsed(body_outer.p,
                                for_desugar(initializer, condition,
                                            increment, body_outer.val)))))

\* for_statement from the condition clause on
for_clauses(initializer) ==
    With(for_clause(initializer.p, "Semicolon"), LAMBDA condition :
        IF condition.r = "Panic" THEN condition
        ELSE With(consume(condition.p, "Semicolon",
                          "Expect ';' after condition."),
                  LAMBDA semi :
                IF semi.r = "None" THEN semi
                ELSE for_body(initializer, condition, semi.p)))

for_statement(p) ==
    With(consume(p, "LeftParen", "Expect '(' after 'for'."), LAMBDA open :
        IF open.r = "None" THEN open
        ELSE With(for_initializer(open.p), LAMBDA initializer :
                IF initializer.r = "Panic" THEN initializer
                ELSE for_clauses(initializer)))

\* while_statement once it has the condition
while_body(condition) ==
    IF condition.r # "Some" THEN condition
    ELSE With(self("statement", consume(condition.p, "RightParen",
                                "Expect ')' after condition.").p),
              LAMBDA body :
            IF body.r # "Some" THEN body
            ELSE Parsed(body.p, While(condition.val, body.val)))

Parser_while_statement(p) ==
    With(self("expression", consume(p, "LeftParen", "Expect '(' after 'while'").p),
         LAMBDA condition : while_body(condition))

\* if_statement once it has the then branch
if_else(condition, then_branch) ==
    IF then_branch.r # "Some" THEN then_branch
    ELSE IF match_tokens(then_branch.p, {"Else"})
    THEN With(self("statement", Parser_advance(then_branch.p)), LAMBDA else_branch :
            IF else_branch.r # "Some" THEN else_branch
            ELSE Parsed(else_branch.p,
                        If(condition.val, then_branch.val,
                           Some(else_branch.val))))
    ELSE Parsed(then_branch.p, If(condition.val, then_branch.val, None))

Parser_if_statement(p) ==
    With(self("expression", consume(p, "LeftParen", "Expect '(' after 'if'.").p),
         LAMBDA condition :
            IF condition.r # "Some" THEN condition
            ELSE With(self("statement", consume(condition.p, "RightParen",
                                "Expect ')' after if condition.").p),
                      LAMBDA then_branch : if_else(condition, then_branch)))

statement(p) ==
    IF match_tokens(p, {"Print"}) THEN self("print_statement", Parser_advance(p))
    ELSE IF match_tokens(p, {"LeftBrace"})
    THEN With(self("block", Parser_advance(p)), LAMBDA stmts :
            IF stmts.r # "Some" THEN stmts
            ELSE Parsed(stmts.p, Block(stmts.val)))
    ELSE IF match_tokens(p, {"If"}) THEN self("Parser_if_statement", Parser_advance(p))
    ELSE IF match_tokens(p, {"While"})
    THEN self("Parser_while_statement", Parser_advance(p))
    ELSE IF match_tokens(p, {"For"}) THEN self("for_statement", Parser_advance(p))
    ELSE self("expression_statement", p)

declaration(p) ==
    IF match_tokens(p, {"Var"}) THEN self("var_declaration", Parser_advance(p))
    ELSE With(self("statement", p), LAMBDA stmt :
            IF stmt.r = "None" THEN NotParsed(synchronize(stmt.p)) ELSE stmt)

self(method, p) ==
    CASE method = "declaration" -> declaration(p)
      [] method = "var_declaration" -> var_declaration(p)
      [] method = "statement" -> statement(p)
      [] method = "block" -> block(p)
      [] method = "for_statement" -> for_statement(p)
      [] method = "Parser_while_statement" -> Parser_while_statement(p)
      [] method = "Parser_if_statement" -> Parser_if_statement(p)
      [] method = "print_statement" -> print_statement(p)
      [] method = "expression_statement" -> expression_statement(p)
      [] method = "expression" -> expression(p)
      [] method = "assignment" -> assignment(p)
      [] method = "or" -> or(p)
      [] method = "and" -> and(p)
      [] method = "ternary" -> ternary(p)
      [] method = "equality" -> equality(p)
      [] method = "comparison" -> comparison(p)
      [] method = "term" -> term(p)
      [] method = "factor" -> factor(p)
      [] method = "unary" -> unary(p)
      [] method = "primary" -> primary(p)

\* the loop of parse
RECURSIVE parse_loop(_, _)
parse_loop(p, stmts) ==
    IF ~Parser_is_at_end(p)
    THEN With(self("declaration", p), LAMBDA stmt :
            IF stmt.r # "Some" THEN stmt
            ELSE parse_loop(stmt.p, Append(stmts, stmt.val)))
    ELSE Parsed(p, stmts)

parse(tokens) == parse_loop(Parser_new(tokens), <<>>)

----------------------------------------------------------------------------
(* Display for Expr and Stmt (src/src/parser.rs): fmt writes the text of a *)
(* tree, or panics at todo!().  A result is [ok, text].                    *)

Written(text) == [ok |-> TRUE, text |-> text]
Todo == [ok |-> FALSE, text |-> <<>>]

\* the pieces of a write!, in order: panics when a piece does
RECURSIVE Pieces_fmt(_)
Pieces_fmt(pieces) ==
    IF pieces = <<>> THEN Written(<<>>)
    ELSE IF ~pieces[1].ok THEN Todo
    ELSE With(Pieces_fmt(Tail(pieces)), LAMBDA rest :
            IF rest.ok THEN Written(pieces[1].text \o rest.text) ELSE Todo)

RECURSIVE Expr_fmt(_)
Expr_fmt(e) ==
    CASE e.expr = "Binary" ->
            Pieces_fmt(<<Written(<<"(">>), Expr_fmt(e.left),
                         Written(<<" ">> \o e.operator.lexeme \o <<" ">>),
                         Expr_fmt(e.right), Written(<<")">>)>>)
      [] e.expr = "Grouping" ->
            Pieces_fmt(<<Written(<<"(", "g", "r", "o", "u", "p", " ">>),
                         Expr_fmt(e.expression), Written(<<")">>)>>)
      [] e.expr = "Literal" -> Written(e.value)
      [] e.expr = "Unary" ->
            Pieces_fmt(<<Written(<<"(">> \o e.operator.lexeme \o <<" ">>),
                         Expr_fmt(e.right), Written(<<")">>)>>)
      [] e.expr = "Ternary" ->
            Pieces_fmt(<<Written(<<"(">>), Expr_fmt(e.condition),
                         Written(<<" ", "?", " ">>), Expr_fmt(e.left),
                         Written(<<" ", ":", " ">>), Expr_fmt(e.right),
                         Written(<<")">>)>>)
      [] e.expr = "Variable" -> Written(e.name.lexeme)
      [] e.expr = "Assign" ->
            Pieces_fmt(<<Written(<<"(">> \o e.name.lexeme
                                 \o <<" ", "=", " ">>),
                         Expr_fmt(e.value), Written(<<")">>)>>)
      [] OTHER -> Todo

RECURSIVE Stmt_fmt(_)
\* the else part of an If
else_fmt(alternative) ==
    IF is_some(alternative)
    THEN Pieces_fmt(<<Written(<<" ", "e", "l", "s", "e", " ", "{", "\n",
                                "\t">>),
                      Stmt_fmt(unwrap(alternative))>>)
    ELSE Written(<<>>)

Stmt_fmt(s) ==
    CASE s.stmt = "Expression" -> Expr_fmt(s.expression)
      [] s.stmt = "Print" ->
            Pieces_fmt(<<Written(<<"p", "r", "i", "n", "t", "(">>),
                         Expr_fmt(s.expression), Written(<<")">>)>>)
      [] s.stmt = "Let" ->
            IF s.initializer = None
            THEN Written(<<"v", "a", "r", " ">> \o s.name.lexeme \o <<";">>)
            ELSE Pieces_fmt(<<Written(<<"v", "a", "r", " ">> \o s.name.lexeme
                                      \o <<" ", "=", " ">>),
                              Expr_fmt(unwrap(s.initializer)),
                              Written(<<";">>)>>)
      [] s.stmt = "Block" ->
            Pieces_fmt(<<Written(<<"{", "\n">>)>>
                       \o [i \in DOMAIN s.statements |->
                            Pieces_fmt(<<Written(<<"\t">>),
                                         Stmt_fmt(s.statements[i]),
                                         Written(<<"\n">>)>>)]
                       \o <<Written(<<"}">>)>>)
      [] s.stmt = "If" ->
            Pieces_fmt(<<Written(<<"i", "f", " ", "(">>),
                         Expr_fmt(s.condition),
                         Written(<<")", " ", "{", "\n", "\t">>),
                         Stmt_fmt(s.then), Written(<<"\n", "}">>),
                         else_fmt(s.else_), Written(<<"\n", "}">>)>>)
      [] OTHER -> Todo

----------------------------------------------------------------------------
(* The programs interpret is run on *)

X == <<"x">>
Y == <<"y">>
Names == {X, Y}
Ident(n) == Token("Identifier", n, 1)
MinusTok == Token("Minus", <<"-">>, 1)
PlusTok == Token("Plus", <<"+">>, 1)
LessEqualTok == Token("LessEqual", <<"<", "=">>, 1)
OrTok == Token("Or", <<"o", "r">>, 1)
AndTok == Token("And", <<"a", "n", "d">>, 1)

VarX == Variable(Ident(X))
VarY == Variable(Ident(Y))
LitFalse == Literal(StrFalse)
LitOne == Literal(<<"1">>)
Atoms == {LitFalse, LitOne, VarX, VarY}

SeqsUpTo(S, n) == UNION {[1..k -> S] : k \in 0..n}

\* print -(x = false): assigns, then fails
PrintNegAssign ==
    PrintStmt(Unary(MinusTok, Grouping(Assign(Ident(X), LitFalse))))

PrintLeaves ==
    {PrintStmt(a) : a \in Atoms}
    \cup {PrintStmt(Unary(MinusTok, a)) :
            a \in Atoms \cup {Literal(StrTrue), Literal(StrNil), Literal(<<"a">>)}}
    \cup {PrintNegAssign, PrintStmt(Binary(VarX, PlusTok, VarY))}

LetLeaves ==
    {Let(Ident(n), None) : n \in Names}
    \cup {Let(Ident(n), Some(a)) : n \in Names, a \in Atoms}
    \cup {Let(Ident(X), Some(Unary(MinusTok, VarY)))}

ExprLeaves ==
    {Expression(Assign(Ident(n), v)) : n \in Names, v \in {LitFalse, LitOne}}
    \cup {Expression(VarY)}

\* print l or r, print l and r: r may assign to x, l and r may be undefined
LitTwo == Literal(<<"2">>)
AssignXTwo == Assign(Ident(X), LitTwo)
LogicalLeaves ==
    {PrintStmt(Logical(l, op, r)) :
        l \in {LitFalse, Literal(StrNil), LitOne, Literal(<<"a">>), VarX},
        op \in {OrTok, AndTok},
        r \in {AssignXTwo, LitTwo, LitFalse, VarY}}

Leaves == PrintLeaves \cup LetLeaves \cup ExprLeaves \cup LogicalLeaves

\* the statements put inside blocks, branches and loop bodies
InnerLeaves ==
    {Let(Ident(Y), Some(LitOne)), PrintStmt(VarX), PrintStmt(VarY),
     Expression(Assign(Ident(X), LitFalse)),
     Expression(Assign(Ident(Y), LitOne)), PrintNegAssign}
NestLeaves ==
    {Let(Ident(Y), Some(LitOne)), PrintStmt(VarY),
     Expression(Assign(Ident(X), LitFalse))}

Blocks ==
    {Block(b) : b \in SeqsUpTo(InnerLeaves \cup {Block(<<>>)}, 2)}
    \cup {Block(<<Block(<<a>>)>>) : a \in NestLeaves}
    \cup {Block(<<a, Block(<<b>>)>>) : a \in NestLeaves, b \in NestLeaves}
    \cup {Block(<<Block(<<a>>), b>>) : a \in NestLeaves, b \in NestLeaves}

Branches ==
    {PrintStmt(VarX), Let(Ident(Y), Some(LitOne)), Block(<<>>),
     Block(<<Let(Ident(Y), Some(LitOne))>>),
     Block(<<PrintStmt(VarY), PrintStmt(VarX)>>),
     Block(<<Expression(Assign(Ident(X), LitFalse))>>)}
Ifs ==
    {If(c, t, e) : c \in {VarX, VarY}, t \in Branches,
                   e \in {None, Some(PrintStmt(VarY)), Some(Block(<<>>))}}

Bodies ==
    {Expression(Assign(Ident(X), LitFalse)), PrintNegAssign, Block(<<>>),
     Block(<<Expression(Assign(Ident(X), LitFalse))>>),
     Block(<<Expression(Assign(Ident(X), LitFalse)), PrintStmt(VarY)>>),
     Block(<<PrintStmt(VarY), Expression(Assign(Ident(X), LitFalse))>>),
     Block(<<Let(Ident(Y), Some(LitOne)),
             Expression(Assign(Ident(X), LitFalse))>>)}
Whiles ==
    {While(c, b) : c \in {VarX, VarY, Binary(VarX, LessEqualTok, LitOne)},
                   b \in Bodies}

\* the statements under test
Tested == Leaves \cup Blocks \cup Ifs \cup Whiles

Setups ==
    SeqsUpTo({Let(Ident(X), Some(LitOne)), Let(Ident(X), Some(LitFalse)),
              Let(Ident(Y), None)}, MaxSetup)
Observers == SeqsUpTo({PrintStmt(VarX), PrintStmt(VarY)}, MaxObserve)

\* src/src/tests/interpreter_tests.rs
TestPrintStatement ==
    <<PrintStmt(Binary(Literal(<<"1", "0">>), PlusTok, Literal(<<"1", "2">>)))>>
TestRuntimeError == <<PrintStmt(Unary(MinusTok, LitFalse))>>
TestBlockStatements ==
    <<Let(Ident(X), Some(Literal(<<"4", "5">>))),
      Block(<<Let(Ident(Y), Some(Literal(<<"4", "5">>))),
              PrintStmt(Binary(VarX, PlusTok, VarY))>>),
      PrintStmt(VarX),
      PrintStmt(VarY)>>

Programs ==
    {pre \o mid \o post :
        pre \in Setups, mid \in SeqsUpTo(Tested, 1), post \in Observers}
    \cup {TestPrintStatement, TestRuntimeError, TestBlockStatements}

----------------------------------------------------------------------------
(* Specification of the interpreter: Interpreter::new, then interpret *)

NoCall == [op |-> "none"]

\* no Scanner and no Parser at work
NoScanner == [ret |-> "none"]
NoParser == [ret |-> "none"]
NoLox == [ret |-> "none"]
FrontIdle ==
    scanner = NoScanner /\ parser = NoParser /\ given = None /\ lox = NoLox

State ==
    [environment |-> environment, output |-> output,
     diagnostics |-> diagnostics, stmt_failed |-> stmt_failed,
     ran_late |-> ran_late, cond_failed |-> cond_failed]

Init ==
    /\ statements \in Programs
    /\ index = 1
    /\ environment = Environment_new
    /\ output = <<>>
    /\ diagnostics = <<>>
    /\ result = "Running"
    /\ stmt_failed = FALSE
    /\ ran_late = FALSE
    /\ cond_failed = FALSE
    /\ call = NoCall
    /\ FrontIdle

\* what interpret does with the result of execute
Returned(res) ==
    /\ res.r # "Cut"
    /\ environment' = res.s.environment
    /\ output' = res.s.output
    /\ diagnostics' = res.s.diagnostics
    /\ stmt_failed' = res.s.stmt_failed
    /\ ran_late' = res.s.ran_late
    /\ cond_failed' = res.s.cond_failed
    /\ index' = IF res.r = "Some" THEN index + 1 ELSE index
    /\ result' = IF res.r = "Some" THEN "Running" ELSE res.r

\* interpret's for loop is at a statement of the given kind
At(kind) ==
    /\ result = "Running"
    /\ index <= Len(statements)
    /\ statements[index].stmt = kind

\* one iteration of interpret's for loop, by the kind of the statement
ExecuteExpression ==
    /\ At("Expression")
    /\ Returned(execute(statements[index], State))
    /\ UNCHANGED <<statements, call, front>>

ExecutePrint ==
    /\ At("Print")
    /\ Returned(execute(statements[index], State))
    /\ UNCHANGED <<statements, call, front>>

ExecuteLet ==
    /\ At("Let")
    /\ Returned(execute(statements[index], State))
    /\ UNCHANGED <<statements, call, front>>

ExecuteBlock ==
    /\ At("Block")
    /\ Returned(execute(statements[index], State))
    /\ UNCHANGED <<statements, call, front>>

ExecuteIf ==
    /\ At("If")
    /\ Returned(execute(statements[index], State))
    /\ UNCHANGED <<statements, call, front>>

ExecuteWhile ==
    /\ At("While")
    /\ Returned(execute(statements[index], State))
    /\ UNCHANGED <<statements, call, front>>

\* interpret returns Some(()) after the last statement
InterpretReturn ==
    /\ result = "Running"
    /\ index > Len(statements)
    /\ result' = "Some"
    /\ UNCHANGED <<statements, index, environment, output, diagnostics,
                   stmt_failed, ran_late, cond_failed, call, front>>

Next ==
    \/ ExecuteExpression
    \/ ExecutePrint
    \/ ExecuteLet
    \/ ExecuteBlock
    \/ ExecuteIf
    \/ ExecuteWhile
    \/ InterpretReturn

Spec == Init /\ [][Next]_vars

----------------------------------------------------------------------------
(* Specification of the Environment on its own: a chain of scopes is built *)
(* with define and with_enclosing, and read and written with get and       *)
(* assign.  call records the last call: its arguments, the chain before    *)
(* it, what it returned and the lines it reported.                         *)

EnvValues == {<<"1">>, <<"2">>}

Called(op, name, value, before, ret, errs) ==
    [op |-> op, name |-> name, value |-> value, before |-> before,
     ret |-> ret, errs |-> errs]

EnvInit ==
    /\ statements = <<>>
    /\ index = 1
    /\ environment = Environment_new
    /\ output = <<>>
    /\ diagnostics = <<>>
    /\ result = "Running"
    /\ stmt_failed = FALSE
    /\ ran_late = FALSE
    /\ cond_failed = FALSE
    /\ call = NoCall
    /\ FrontIdle

EnvIdle == UNCHANGED <<statements, index, output, diagnostics, result,
                       stmt_failed, ran_late, cond_failed, front>>

EnvWithEnclosing ==
    /\ Depth(environment) < MaxDepth
    /\ environment' = with_enclosing(environment)
    /\ call' = Called("with_enclosing", <<>>, <<>>, environment, None, <<>>)
    /\ EnvIdle

EnvDefine ==
    /\ \E n \in Names, v \in EnvValues :
        /\ environment' = define(environment, n, v)
        /\ call' = Called("define", n, v, environment, None, <<>>)
    /\ EnvIdle

EnvGet ==
    /\ \E n \in Names :
        With(get(environment, Ident(n)), LAMBDA g :
            /\ environment' = g.env
            /\ call' = Called("get", n, <<>>, environment, g.ret, g.errs))
    /\ EnvIdle

EnvAssign ==
    /\ \E n \in Names, v \in EnvValues :
        With(assign(environment, Ident(n), v), LAMBDA a :
            /\ environment' = a.env
            /\ call' = Called("assign", n, v, environment, a.ret, a.errs))
    /\ EnvIdle

EnvNext ==
    \/ EnvWithEnclosing
    \/ EnvDefine
    \/ EnvGet
    \/ EnvAssign

EnvSpec == EnvInit /\ [][EnvNext]_vars

----------------------------------------------------------------------------
(* The sources scan_tokens is run on: one piece of text, with a short text *)
(* in front of it and one behind it.                                       *)

\* longest text between the quotes of a string literal
MaxText == 1
\* longest text between /* and the end of a block comment
MaxComment == 2

Words ==
    {kw[1] : kw \in keywords}
    \cup {<<"f", "u", "n">>,
           <<"c", "l", "a", "s", "s">>,
           <<"r", "e", "t", "u", "r", "n">>,
           <<"i", "d", "e", "n", "t">>,
           <<"a", "_", "1">>,
           <<"x">>}
Punctuation == {<<c>> : c \in SingleChars \cup OperatorChars \cup {"/"}}
Blanks == {<<c>> : c \in BlankChars \cup {"\n"}}
Numbers == {<<"1">>, <<"1", "2">>, <<"1", ".", "5">>, <<"1", ".">>}
TextChars == {"a", "\n", "'"}
Strings ==
    UNION {{<<qu>> \o body \o close :
                body \in SeqsUpTo(TextChars, MaxText),
                close \in {<<qu>>, <<>>}} : qu \in QuoteChars}
CommentChars == {"a", "*", "/", "\n", "@"}
BlockComments ==
    {<<"/", "*">> \o body \o close :
        body \in SeqsUpTo(CommentChars, MaxComment),
        close \in {<<"*", "/">>, <<>>}}
LineComments ==
    {<<"/", "/">> \o body \o close :
        body \in SeqsUpTo({"a", "@"}, 1), close \in {<<"\n">>, <<>>}}
Unexpected == {<<"@">>, <<"_">>, <<"#">>}

Pieces ==
    Words \cup Punctuation \cup Blanks \cup Numbers \cup Strings
    \cup BlockComments \cup LineComments \cup Unexpected

Lead == {<<>>, <<"x">>, <<"1">>, <<"\n">>, <<"(">>}
Trail == {<<>>, <<"x">>, <<"1">>, <<"=">>, <<"\n">>, <<"@">>}

\* src/src/tests/scanner_tests.rs
TestScanTokens ==
    <<"(", ")", "{", "}", "+", "-", "=", "!", "=", "!", "*", "/", "\n",
      " ", " ", " ", " ", " ", " ", " ", " ", "i", "f", " ", "e", "l", "s",
      "e", " ", "i", "d", "e", "n", "t", " ", "r", "e", "t", "u", "r", "n",
      "\n", " ", " ", " ", " ", " ", " ", " ", " ", " ", " ", " ", " ",
      "/", "*", " ", "m", "u", "l", "t", "i", "l", "i", "n", "e", " ", "c",
      "o", "m", "m", "e", "n", "t", " ", "*", "/", "\n", " ", " ", " ",
      " ", " ", " ", " ", " ">>
\* the first line of that source
TestPunctuation ==
    <<"(", ")", "{", "}", "+", "-", "=", "!", "=", "!", "*", "/">>

Sources ==
    {pre \o mid \o post : pre \in Lead, mid \in Pieces, post \in Trail}
    \cup {TestScanTokens, TestPunctuation}

----------------------------------------------------------------------------
(* Specification of the Scanner: Scanner::new, then scan_tokens, one       *)
(* scan_token at a time.                                                   *)

ScanInit ==
    /\ scanner \in {Scanner_new(source) : source \in Sources}
    /\ parser = NoParser
    /\ given = None
    /\ lox = NoLox
    /\ statements = <<>>
    /\ index = 1
    /\ environment = Environment_new
    /\ output = <<>>
    /\ diagnostics = <<>>
    /\ result = "Running"
    /\ stmt_failed = FALSE
    /\ ran_late = FALSE
    /\ cond_failed = FALSE
    /\ call = NoCall

ScanIdle ==
    UNCHANGED <<statements, index, environment, output, result, stmt_failed,
                ran_late, cond_failed, call, parser, given, lox>>

\* the loop of scan_tokens is in front of a character
ScanAt ==
    /\ scanner.ret = "Running"
    /\ ~Scanner_is_at_end(scanner)

\* what scan_tokens does with the result of scan_token
Scanned(res) ==
    /\ scanner' = IF res.ok THEN res.sc ELSE [res.sc EXCEPT !.ret = "None"]
    /\ diagnostics' = diagnostics \o res.errs

\* one iteration of the loop of scan_tokens, by the arm of scan_token
ScanSingle ==
    /\ ScanAt
    /\ Scanner_peek(scanner) \in SingleChars
    /\ Scanned(scan_tokens_step(scanner))
    /\ ScanIdle

ScanSlash ==
    /\ ScanAt
    /\ Scanner_peek(scanner) = "/"
    /\ Scanned(scan_tokens_step(scanner))
    /\ ScanIdle

ScanOperator ==
    /\ ScanAt
    /\ Scanner_peek(scanner) \in OperatorChars
    /\ Scanned(scan_tokens_step(scanner))
    /\ ScanIdle

ScanBlank ==
    /\ ScanAt
    /\ Scanner_peek(scanner) \in BlankChars \cup {"\n"}
    /\ Scanned(scan_tokens_step(scanner))
    /\ ScanIdle

ScanString ==
    /\ ScanAt
    /\ Scanner_peek(scanner) \in QuoteChars
    /\ Scanned(scan_tokens_step(scanner))
    /\ ScanIdle

ScanNumber ==
    /\ ScanAt
    /\ Scanner_is_digit(Scanner_peek(scanner))
    /\ Scanned(scan_tokens_step(scanner))
    /\ ScanIdle

ScanIdentifier ==
    /\ ScanAt
    /\ Scanner_is_alpha(Scanner_peek(scanner))
    /\ Scanned(scan_tokens_step(scanner))
    /\ ScanIdle

ScanUnexpected ==
    /\ ScanAt
    /\ Scanner_peek(scanner) \notin
            SingleChars \cup OperatorChars \cup BlankChars \cup QuoteChars
            \cup {"/", "\n"}
    /\ ~Scanner_is_digit(Scanner_peek(scanner))
    /\ ~Scanner_is_alpha(Scanner_peek(scanner))
    /\ Scanned(scan_tokens_step(scanner))
    /\ ScanIdle

\* scan_tokens pushes the EOF token and returns the tokens
ScanReturn ==
    /\ scanner.ret = "Running"
    /\ Scanner_is_at_end(scanner)
    /\ scanner' = scan_tokens_end(scanner)
    /\ UNCHANGED diagnostics
    /\ ScanIdle

ScanNext ==
    \/ ScanSingle
    \/ ScanSlash
    \/ ScanOperator
    \/ ScanBlank
    \/ ScanString
    \/ ScanNumber
    \/ ScanIdentifier
    \/ ScanUnexpected
    \/ ScanReturn

ScanSpec == ScanInit /\ [][ScanNext]_vars

----------------------------------------------------------------------------
(* The token sequences parse is run on.  Each comes with how it was built  *)
(* (the variable given): from a tree of the expression grammar, from a     *)
(* statement followed by semicolons, from statements of which some are     *)
(* malformed, or from a source text through scan_tokens.                   *)

MaxNodes == 2
MaxSemicolons == 2
MaxParts == 2

Punct(token_type, lexeme, line) == Token(token_type, <<lexeme>>, line)
EofTok(line) == Token("EOF", <<Nul>>, line)
SemicolonTok(line) == Punct("Semicolon", ";", line)
PrintTok(line) == Token("Print", <<"p", "r", "i", "n", "t">>, line)
VarTok(line) == Token("Var", <<"v", "a", "r">>, line)
NumberTok(lexeme, line) == Token("Number", lexeme, line)
EqualTok == Punct("Equal", "=", 1)

UnaryOps == {Punct("Bang", "!", 1), MinusTok}
FactorOps == {Punct("Slash", "/", 1), Punct("Star", "*", 1)}
TermOps == {MinusTok, PlusTok}
ComparisonOps == {Punct("Greater", ">", 1), LessEqualTok}
EqualityOps ==
    {Token("BangEqual", <<"!", "=">>, 1), Token("EqualEqual", <<"=", "=">>, 1)}
GrammarAtoms == {VarX}

\* the trees of n nodes (atoms not counted) each level of the grammar derives:
\* a level's operators take that level on the left, the next level on the
\* right; the middle of a ternary is a primary, its right a ternary; the
\* parentheses hold a tree that is not itself in parentheses
RECURSIVE PrimaryTrees(_), UnaryTrees(_), FactorTrees(_), TermTrees(_),
          ComparisonTrees(_), EqualityTrees(_), TernaryTrees(_)
PrimaryTrees(n) ==
    IF n = 0 THEN GrammarAtoms
    ELSE {Grouping(e) : e \in {t \in TernaryTrees(n - 1) :
                                    t.expr # "Grouping"}}
UnaryTrees(n) ==
    PrimaryTrees(n)
    \cup (IF n = 0 THEN {}
          ELSE {Unary(op, r) : op \in UnaryOps, r \in UnaryTrees(n - 1)})
FactorTrees(n) ==
    UnaryTrees(n)
    \cup UNION {{Binary(l, op, r) : l \in FactorTrees(k), op \in FactorOps,
                                    r \in UnaryTrees(n - 1 - k)} :
                k \in 0..(n - 1)}
TermTrees(n) ==
    FactorTrees(n)
    \cup UNION {{Binary(l, op, r) : l \in TermTrees(k), op \in TermOps,
                                    r \in FactorTrees(n - 1 - k)} :
                k \in 0..(n - 1)}
ComparisonTrees(n) ==
    TermTrees(n)
    \cup UNION {{Binary(l, op, r) : l \in ComparisonTrees(k),
                                    op \in ComparisonOps,
                                    r \in TermTrees(n - 1 - k)} :
                k \in 0..(n - 1)}
EqualityTrees(n) ==
    ComparisonTrees(n)
    \cup UNION {{Binary(l, op, r) : l \in EqualityTrees(k),
                                    op \in EqualityOps,
                                    r \in ComparisonTrees(n - 1 - k)} :
                k \in 0..(n - 1)}
TernaryTrees(n) ==
    EqualityTrees(n)
    \cup UNION {UNION {{Ternary(c, a, r) : c \in EqualityTrees(i),
                                           a \in PrimaryTrees(j),
                                           r \in TernaryTrees(n - 1 - i - j)} :
                       j \in 0..(n - 1 - i)} :
                i \in 0..(n - 1)}
GrammarTrees == UNION {TernaryTrees(n) : n \in 0..MaxNodes}

\* the token a literal is parsed from
LiteralToken(value) ==
    IF value = StrTrue THEN Token("True", value, 1)
    ELSE IF value = StrFalse THEN Token("False", value, 1)
    ELSE IF value = StrNil THEN Token("Nil", value, 1)
    ELSE IF value # <<>> /\ IsDigit(value[1]) THEN NumberTok(value, 1)
    ELSE Token("String", value, 1)

\* the tokens of an expression, in the order of the source
RECURSIVE Linear(_)
Linear(e) ==
    CASE e.expr = "Literal" -> <<LiteralToken(e.value)>>
      [] e.expr = "Variable" -> <<e.name>>
      [] e.expr = "Grouping" ->
            <<Punct("LeftParen", "(", 1)>> \o Linear(e.expression)
            \o <<Punct("RightParen", ")", 1)>>
      [] e.expr = "Unary" -> <<e.operator>> \o Linear(e.right)
      [] e.expr \in {"Binary", "Logical"} ->
            Linear(e.left) \o <<e.operator>> \o Linear(e.right)
      [] e.expr = "Ternary" ->
            Linear(e.condition) \o <<Punct("Qmark", "?", 1)>>
            \o Linear(e.left) \o <<Punct("Colon", ":", 1)>>
            \o Linear(e.right)
      [] e.expr = "Assign" -> <<e.name, EqualTok>> \o Linear(e.value)

GrammarInputs ==
    {[tokens |-> Linear(e) \o <<EofTok(1)>>,
      given |-> [form |-> "expression", tree |-> e]] : e \in GrammarTrees}

\* a print statement, a var declaration and an expression statement,
\* without their semicolons
Terminated ==
    {<<PrintTok(1), NumberTok(<<"1">>, 1)>>,
     <<VarTok(1), Ident(X)>>,
     <<VarTok(1), Ident(X), EqualTok, NumberTok(<<"1">>, 1)>>,
     <<NumberTok(<<"1">>, 1)>>,
     <<Ident(X), EqualTok, NumberTok(<<"1">>, 1)>>}

SemicolonInputs ==
    {[tokens |-> base \o [i \in 1..n |-> SemicolonTok(1)] \o <<EofTok(1)>>,
      given |-> [form |-> "semicolons", base |-> base, n |-> n]] :
        base \in Terminated, n \in 0..MaxSemicolons}

\* statements on a line of their own, well-formed or not
GoodPart(line) ==
    {<<PrintTok(line), NumberTok(<<"1">>, line), SemicolonTok(line)>>,
     <<NumberTok(<<"1">>, line), SemicolonTok(line)>>}
BadPart(line) ==
    {<<Punct("Plus", "+", line), SemicolonTok(line)>>,
     <<PrintTok(line), SemicolonTok(line)>>,
     <<NumberTok(<<"1">>, line), Punct("Plus", "+", line),
       SemicolonTok(line)>>,
     <<Punct("RightParen", ")", line), NumberTok(<<"1">>, line),
       SemicolonTok(line)>>}

RECURSIVE PartInputs(_)
PartInputs(n) ==
    IF n = 0 THEN {[tokens |-> <<>>, bad |-> <<>>]}
    ELSE {[tokens |-> pre.tokens \o part, bad |-> Append(pre.bad, FALSE)] :
            pre \in PartInputs(n - 1), part \in GoodPart(n)}
         \cup
         {[tokens |-> pre.tokens \o part, bad |-> Append(pre.bad, TRUE)] :
            pre \in PartInputs(n - 1), part \in BadPart(n)}

MalformedInputs ==
    UNION {{[tokens |-> in.tokens \o <<EofTok(n)>>,
             given |-> [form |-> "parts", bad |-> in.bad]] :
                in \in PartInputs(n)} : n \in 1..MaxParts}

\* src/src/tests/parser_tests.rs
TestBinaryExpr ==
    <<"1", "0", " ", "+", " ", "1", "2">>
TestLiteralExpr ==
    <<"1", "0">>
TestGroupingExpr ==
    <<"(", "1", "0", ")">>
TestUnaryExpr ==
    <<"!", "t", "r", "u", "e">>
TestPrecedenceGrouped ==
    <<"(", "1", "0", " ", "+", " ", "1", "2", ")", " ", "/", " ", "2">>
TestPrecedencePlain ==
    <<"1", "0", " ", "+", " ", "1", "2", " ", "/", " ", "2">>
TestTernary ==
    <<"t", "r", "u", "e", " ", "?", " ", "1", " ", ":", " ", "2">>
TestTexts ==
    {TestBinaryExpr, TestLiteralExpr, TestGroupingExpr, TestUnaryExpr,
     TestPrecedenceGrouped, TestPrecedencePlain, TestTernary}

\* one source for each statement form and for the expressions above ternary
\* { var x = 1; print x; }
BlockText ==
    <<"{", " ", "v", "a", "r", " ", "x", " ", "=", " ", "1", ";", " ", "p",
      "r", "i", "n", "t", " ", "x", ";", " ", "}">>
\* if (x) print 1; else print 2;
IfElseText ==
    <<"i", "f", " ", "(", "x", ")", " ", "p", "r", "i", "n", "t", " ", "1",
      ";", " ", "e", "l", "s", "e", " ", "p", "r", "i", "n", "t", " ", "2",
      ";">>
\* if (x == 1) { y = 1; }
IfText ==
    <<"i", "f", " ", "(", "x", " ", "=", "=", " ", "1", ")", " ", "{", " ",
      "y", " ", "=", " ", "1", ";", " ", "}">>
\* while (x < 1) x = x + 1;
WhileText ==
    <<"w", "h", "i", "l", "e", " ", "(", "x", " ", "<", " ", "1", ")", " ",
      "x", " ", "=", " ", "x", " ", "+", " ", "1", ";">>
\* for (var x = 0; x < 2; x = x + 1) print x;
ForVarText ==
    <<"f", "o", "r", " ", "(", "v", "a", "r", " ", "x", " ", "=", " ", "0",
      ";", " ", "x", " ", "<", " ", "2", ";", " ", "x", " ", "=", " ", "x",
      " ", "+", " ", "1", ")", " ", "p", "r", "i", "n", "t", " ", "x", ";">>
\* for (;;) print 1;
ForEmptyText ==
    <<"f", "o", "r", " ", "(", ";", ";", ")", " ", "p", "r", "i", "n", "t",
      " ", "1", ";">>
\* for (x = 0; x < 1;) {}
ForExprText ==
    <<"f", "o", "r", " ", "(", "x", " ", "=", " ", "0", ";", " ", "x", " ",
      "<", " ", "1", ";", ")", " ", "{", "}">>
\* x = y = 2;
AssignText ==
    <<"x", " ", "=", " ", "y", " ", "=", " ", "2", ";">>
\* x or y and 1;
LogicalText ==
    <<"x", " ", "o", "r", " ", "y", " ", "a", "n", "d", " ", "1", ";">>
\* print "a";
StringText ==
    <<"p", "r", "i", "n", "t", " ", "\"", "a", "\"", ";">>
\* var x = 1;\nprint x + 1;
TwoLinesText ==
    <<"v", "a", "r", " ", "x", " ", "=", " ", "1", ";", "\n", "p", "r",
      "i", "n", "t", " ", "x", " ", "+", " ", "1", ";">>
StatementTexts ==
    {BlockText, IfElseText, IfText, WhileText,
     ForVarText, ForEmptyText, ForExprText, AssignText,
     LogicalText, StringText, TwoLinesText}

\* get_parser of the tests: Scanner::new, scan_tokens, Parser::new
TextInputs ==
    {[tokens |-> scan_tokens(source).sc.returned,
      given |-> [form |-> "text", source |-> source]] :
        source \in TestTexts \cup StatementTexts}

\* for ( initializer condition ; increment ) print x ;  with each clause
\* present or absent: the clauses, and the tokens of each
ForInitializers ==
    {[stmt |-> Some(Let(Ident(X), Some(LitOne))),
      tokens |-> <<VarTok(1), Ident(X), EqualTok, NumberTok(<<"1">>, 1),
                   SemicolonTok(1)>>],
     [stmt |-> Some(Expression(Assign(Ident(X), LitOne))),
      tokens |-> <<Ident(X), EqualTok, NumberTok(<<"1">>, 1),
                   SemicolonTok(1)>>],
     [stmt |-> None, tokens |-> <<SemicolonTok(1)>>]}
ForConditions ==
    {[expr |-> Some(Binary(VarX, LessEqualTok, LitOne)),
      tokens |-> <<Ident(X), LessEqualTok, NumberTok(<<"1">>, 1)>>],
     [expr |-> None, tokens |-> <<>>]}
ForIncrements ==
    {[expr |-> Some(Assign(Ident(X), VarY)),
      tokens |-> <<Ident(X), EqualTok, Ident(Y)>>],
     [expr |-> None, tokens |-> <<>>]}
ForInputs ==
    {[tokens |-> <<Token("For", <<"f", "o", "r">>, 1),
                   Punct("LeftParen", "(", 1)>>
                 \o initializer.tokens \o condition.tokens
                 \o <<SemicolonTok(1)>> \o increment.tokens
                 \o <<Punct("RightParen", ")", 1), PrintTok(1), Ident(X),
                      SemicolonTok(1), EofTok(1)>>,
      given |-> [form |-> "for", initializer |-> initializer.stmt,
                 condition |-> condition.expr,
                 increment |-> increment.expr,
                 body |-> PrintStmt(VarX)]] :
        initializer \in ForInitializers, condition \in ForConditions,
        increment \in ForIncrements}

\* statements with one token missing: the token, and what is left
IfTok == Token("If", <<"i", "f">>, 1)
WhileTok == Token("While", <<"w", "h", "i", "l", "e">>, 1)
Faulty ==
    {[fault |-> "grouping )",
      tokens |-> <<Punct("LeftParen", "(", 1), NumberTok(<<"1">>, 1),
                   SemicolonTok(1)>>],
     [fault |-> "if (",
      tokens |-> <<IfTok, Ident(X), Punct("RightParen", ")", 1),
                   PrintTok(1), NumberTok(<<"1">>, 1), SemicolonTok(1)>>],
     [fault |-> "if )",
      tokens |-> <<IfTok, Punct("LeftParen", "(", 1), Ident(X),
                   PrintTok(1), NumberTok(<<"1">>, 1), SemicolonTok(1)>>],
     [fault |-> "while (",
      tokens |-> <<WhileTok, Ident(X), Punct("RightParen", ")", 1),
                   PrintTok(1), NumberTok(<<"1">>, 1), SemicolonTok(1)>>],
     [fault |-> "while )",
      tokens |-> <<WhileTok, Punct("LeftParen", "(", 1), Ident(X),
                   PrintTok(1), NumberTok(<<"1">>, 1), SemicolonTok(1)>>],
     [fault |-> "block }",
      tokens |-> <<Punct("LeftBrace", "{", 1), PrintTok(1),
                   NumberTok(<<"1">>, 1), SemicolonTok(1)>>]}
    \cup
    {[fault |-> "right operand",
      tokens |-> <<NumberTok(<<"1">>, 1), op, SemicolonTok(1)>>] :
        op \in {Punct("Star", "*", 1), PlusTok, LessEqualTok,
                Token("EqualEqual", <<"=", "=">>, 1), OrTok, AndTok}}
FaultyInputs ==
    {[tokens |-> f.tokens \o <<EofTok(1)>>,
      given |-> [form |-> "faulty", fault |-> f.fault]] : f \in Faulty}

ParseInputs ==
    GrammarInputs \cup SemicolonInputs \cup MalformedInputs \cup TextInputs
    \cup ForInputs \cup FaultyInputs

----------------------------------------------------------------------------
(* Specification of the Parser: Parser::new, then parse, one declaration   *)
(* at a time.  parser is [tokens, current, statements, ret]: ret is        *)
(* "Running" until parse returns, then "Some" (statements is what it       *)
(* returned), "None" or "Panic".                                           *)

ParseInit ==
    /\ \E input \in ParseInputs :
        /\ parser = [tokens |-> input.tokens, current |-> 0,
                     statements |-> <<>>, ret |-> "Running"]
        /\ given = input.given
    /\ scanner = NoScanner
    /\ lox = NoLox
    /\ statements = <<>>
    /\ index = 1
    /\ environment = Environment_new
    /\ output = <<>>
    /\ diagnostics = <<>>
    /\ result = "Running"
    /\ stmt_failed = FALSE
    /\ ran_late = FALSE
    /\ cond_failed = FALSE
    /\ call = NoCall

ParseIdle ==
    UNCHANGED <<statements, index, environment, output, result, stmt_failed,
                ran_late, cond_failed, call, scanner, given, lox>>

\* the Parser of the state
Parsing ==
    [tokens |-> parser.tokens, current |-> parser.current, errs |-> <<>>]

\* the loop of parse is in front of a token of one of the types
ParseAt(types) ==
    /\ parser.ret = "Running"
    /\ ~Parser_is_at_end(Parsing)
    /\ Parser_peek(Parsing).token_type \in types

\* what parse does with the result of declaration
Declared(res) ==
    /\ parser' = [parser EXCEPT
                    !.current = res.p.current,
                    !.statements =
                        IF res.r = "Some" THEN Append(@, res.val) ELSE @,
                    !.ret = IF res.r = "Some" THEN "Running" ELSE res.r]
    /\ diagnostics' = diagnostics \o res.p.errs

StatementStarts == {"Var", "Print", "LeftBrace", "If", "While", "For"}

\* one iteration of the loop of parse, by the token the declaration starts with
ParseVar ==
    /\ ParseAt({"Var"})
    /\ Declared(declaration(Parsing))
    /\ ParseIdle

ParsePrint ==
    /\ ParseAt({"Print"})
    /\ Declared(declaration(Parsing))
    /\ ParseIdle

ParseBlock ==
    /\ ParseAt({"LeftBrace"})
    /\ Declared(declaration(Parsing))
    /\ ParseIdle

ParseIf ==
    /\ ParseAt({"If"})
    /\ Declared(declaration(Parsing))
    /\ ParseIdle

ParseWhile ==
    /\ ParseAt({"While"})
    /\ Declared(declaration(Parsing))
    /\ ParseIdle

ParseFor ==
    /\ ParseAt({"For"})
    /\ Declared(declaration(Parsing))
    /\ ParseIdle

ParseExpression ==
    /\ parser.ret = "Running"
    /\ ~Parser_is_at_end(Parsing)
    /\ Parser_peek(Parsing).token_type \notin StatementStarts
    /\ Declared(declaration(Parsing))
    /\ ParseIdle

\* parse returns the statements
ParseReturn ==
    /\ parser.ret = "Running"
    /\ Parser_is_at_end(Parsing)
    /\ parser' = [parser EXCEPT !.ret = "Some"]
    /\ UNCHANGED diagnostics
    /\ ParseIdle

ParseNext ==
    \/ ParseVar
    \/ ParsePrint
    \/ ParseBlock
    \/ ParseIf
    \/ ParseWhile
    \/ ParseFor
    \/ ParseExpression
    \/ ParseReturn

ParseSpec == ParseInit /\ [][ParseNext]_vars

\* parse is a sequential loop: an iteration that can run does run.  This is
\* WF_vars(ParseNext) with ENABLED <<ParseNext>>_vars written out: a step
\* is possible exactly while parse has not returned
ParseLive ==
    /\ ParseInit
    /\ [][ParseNext]_vars
    /\ \/ []<>(parser.ret # "Running")
       \/ []<><<ParseNext>>_vars

----------------------------------------------------------------------------
(* Lox (src/src/main.rs): run_prompt reads the lines of a session and runs *)
(* each.  lox is [lines, line, had_error, had_runtime_error, ret]: line is *)
(* the line read next, ret "Running" until run_prompt returns at the end   *)
(* of input ("Returned") or the process panics ("Panic").  environment is  *)
(* the Environment of the Interpreter of the last run.                     *)

\* lines read in one session
MaxLines == 3

\* interpret: execute each statement, None at the first that fails
RECURSIVE interpret_loop(_, _, _)
interpret_loop(stmts, i, s) ==
    IF i > Len(stmts) THEN Ok(s, <<>>)
    ELSE With(execute(stmts[i], s), LAMBDA res :
            IF res.r # "Some" THEN res
            ELSE interpret_loop(stmts, i + 1, res.s))

interpret(stmts, s) == interpret_loop(stmts, 1, s)

\* Interpreter::new(): the state s with the Environment of a new Interpreter
Interpreter_new(s) == [s EXCEPT !.environment = Environment_new]

\* run from the parsed statements on: [lox, s, r]
run_interpret(l, stmts, s) ==
    With(interpret(stmts, Interpreter_new(s)), LAMBDA res :
        IF res.r = "None"
        THEN [lox |-> [l EXCEPT !.had_runtime_error = TRUE], s |-> res.s,
              r |-> "Returned"]
        ELSE [lox |-> l, s |-> res.s,
              r |-> IF res.r = "Some" THEN "Returned" ELSE res.r])

\* run from the tokens on
run_parse(l, tokens, s) ==
    With(parse(tokens), LAMBDA expr :
        IF expr.r = "Panic"
        THEN [lox |-> l, s |-> Reported(s, expr.p.errs), r |-> "Panic"]
        ELSE IF expr.r = "None"
        THEN [lox |-> [l EXCEPT !.had_error = TRUE],
              s |-> Reported(s, expr.p.errs), r |-> "Returned"]
        ELSE run_interpret(l, expr.val, Reported(s, expr.p.errs)))

run(l, source, s) ==
    With(scan_tokens(source), LAMBDA tokens :
        IF tokens.sc.ret = "None"
        THEN [lox |-> [l EXCEPT !.had_error = TRUE],
              s |-> Reported(s, tokens.errs), r |-> "Returned"]
        ELSE run_parse(l, tokens.sc.returned, s))

\* the lines typed at the prompt, each with its line end
VarLine == <<"v", "a", "r", " ", "x", " ", "=", " ", "1", ";", "\n">>
AssignLine == <<"x", " ", "=", " ", "2", ";", "\n">>
PrintLine == <<"p", "r", "i", "n", "t", " ", "x", ";", "\n">>
UnexpectedLine == <<"@", "\n">>
MalformedLine == <<"p", "r", "i", "n", "t", " ", ";", "\n">>
Lines == {VarLine, AssignLine, PrintLine, UnexpectedLine, MalformedLine}
Sessions == SeqsUpTo(Lines, MaxLines)

LoxInit ==
    /\ lox \in {[lines |-> session, line |-> 1, had_error |-> FALSE,
                 had_runtime_error |-> FALSE, ret |-> "Running"] :
                    session \in Sessions}
    /\ scanner = NoScanner
    /\ parser = NoParser
    /\ given = None
    /\ statements = <<>>
    /\ index = 1
    /\ environment = Environment_new
    /\ output = <<>>
    /\ diagnostics = <<>>
    /\ result = "Running"
    /\ stmt_failed = FALSE
    /\ ran_late = FALSE
    /\ cond_failed = FALSE
    /\ call = NoCall

LoxIdle == UNCHANGED <<statements, index, result, call, scanner, parser, given>>

\* what run_prompt does once run has returned: self.had_error = false
Ran(after) ==
    /\ after.r # "Cut"
    /\ lox' = IF after.r = "Panic"
              THEN [after.lox EXCEPT !.ret = "Panic"]
              ELSE [after.lox EXCEPT !.had_error = FALSE, !.line = @ + 1]
    /\ environment' = after.s.environment
    /\ output' = after.s.output
    /\ diagnostics' = after.s.diagnostics
    /\ stmt_failed' = after.s.stmt_failed
    /\ ran_late' = after.s.ran_late
    /\ cond_failed' = after.s.cond_failed

\* one iteration of the loop of run_prompt: a line is read and run
PromptLine ==
    /\ lox.ret = "Running"
    /\ lox.line <= Len(lox.lines)
    /\ Ran(run(lox, lox.lines[lox.line], State))
    /\ LoxIdle

\* read_line returns 0 at the end of input: run_prompt returns
PromptReturn ==
    /\ lox.ret = "Running"
    /\ lox.line > Len(lox.lines)
    /\ lox' = [lox EXCEPT !.ret = "Returned"]
    /\ UNCHANGED <<environment, output, diagnostics, stmt_failed, ran_late,
                   cond_failed>>
    /\ LoxIdle

LoxNext ==
    \/ PromptLine
    \/ PromptReturn

LoxSpec == LoxInit /\ [][LoxNext]_vars

----------------------------------------------------------------------------
(* Claims about the Environment, checked under EnvSpec.  They speak of the *)
(* chain before the call by position: scope 1 is the current scope.        *)

\* the scopes of a chain that define a name, and the nearest of them
Defining(chain, n) == {i \in DOMAIN chain : n \in DOMAIN chain[i]}
Nearest(chain, n) ==
    CHOOSE i \in Defining(chain, n) : \A j \in Defining(chain, n) : i <= j

\* C6: Environment.assign returns failure exactly when no scope of the chain
\* defines the name and success exactly when some scope does, for a chain of
\* any depth.
C6_AssignFailsIffUndefined ==
    call.op = "assign" =>
        (call.ret = None <=> Defining(Chain(call.before), call.name) = {})

\* C7: Environment.assign changes at most one binding, that of the name in
\* the nearest scope that already defines it; it adds no name to any scope,
\* leaves every other binding of every scope as it was (shadowed bindings of
\* the same name included), and changes nothing when no scope defines the name.
C7_AssignWritesNearestOnly ==
    call.op = "assign" =>
        LET before == Chain(call.before)
            after == Chain(environment)
        IN  /\ Len(after) = Len(before)
            /\ \A i \in DOMAIN before :
                /\ DOMAIN after[i] = DOMAIN before[i]
                /\ \A n \in DOMAIN before[i] :
                    after[i][n] =
                        IF /\ n = call.name
                           /\ i = Nearest(before, call.name)
                        THEN call.value
                        ELSE before[i][n]

\* an assignment that changed a binding shadowing two other bindings of the
\* same name, which hold another value
C7_Witness ==
    /\ call.op = "assign"
    /\ Defining(Chain(call.before), call.name) = {2, 3}
    /\ Chain(call.before)[2][call.name] # call.value
    /\ Chain(call.before)[3][call.name] # call.value
    /\ Chain(environment)[2][call.name] = call.value

\* C8: Environment.get returns the value bound to the name in the nearest
\* scope that defines it, fails, reporting the undefined variable, exactly
\* when no scope of the chain defines it, and changes no binding of any scope.
C8_GetReadsNearest ==
    call.op = "get" =>
        LET before == Chain(call.before)
        IN  /\ environment = call.before
            /\ IF Defining(before, call.name) = {}
               THEN /\ call.ret = None
                    /\ call.errs # <<>>
                    /\ \A k \in DOMAIN call.errs :
                        call.errs[k] = error(1, "Undefined Variable", call.name)
               ELSE /\ call.ret = Some(before[Nearest(before, call.name)][call.name])
                    /\ call.errs = <<>>

\* a successful get of a name that the current scope does not define and two
\* enclosing scopes bind to different values
C8_Witness ==
    /\ call.op = "get"
    /\ Defining(Chain(call.before), call.name) = {2, 3}
    /\ Chain(call.before)[2][call.name] # Chain(call.before)[3][call.name]
    /\ call.ret = Some(Chain(call.before)[2][call.name])

----------------------------------------------------------------------------
(* Claims about the Scanner, checked under ScanSpec.  Positions in the     *)
(* source count from 0, as Scanner.current does.                           *)

\* the kind of token a punctuation lexeme stands for
PunctuationKind(lexeme) ==
    CASE lexeme = <<"(">> -> "LeftParen"
      [] lexeme = <<")">> -> "RightParen"
      [] lexeme = <<"{">> -> "LeftBrace"
      [] lexeme = <<"}">> -> "RightBrace"
      [] lexeme = <<",">> -> "Comma"
      [] lexeme = <<".">> -> "Dot"
      [] lexeme = <<"-">> -> "Minus"
      [] lexeme = <<"+">> -> "Plus"
      [] lexeme = <<";">> -> "Semicolon"
      [] lexeme = <<"*">> -> "Star"
      [] lexeme = <<"?">> -> "Qmark"
      [] lexeme = <<":">> -> "Colon"
      [] lexeme = <<"/">> -> "Slash"
      [] lexeme = <<"=">> -> "Equal"
      [] lexeme = <<"=", "=">> -> "EqualEqual"
      [] lexeme = <<"!">> -> "Bang"
      [] lexeme = <<"!", "=">> -> "BangEqual"
      [] lexeme = <<"<">> -> "Less"
      [] lexeme = <<"<", "=">> -> "LessEqual"
      [] lexeme = <<">">> -> "Greater"
      [] lexeme = <<">", "=">> -> "GreaterEqual"

\* the punctuation lexeme that starts at position i of the source, with the
\* two-character operators matched greedily; <<>> when none starts there
PunctuationAt(source, i) ==
    LET c == CharAt(source, i)
        d == CharAt(source, i + 1)
    IN  IF i >= Len(source) THEN <<>>
        ELSE IF c \in {"=", "!", "<", ">"}
        THEN IF i + 1 < Len(source) /\ d = "=" THEN <<c, d>> ELSE <<c>>
        ELSE IF c = "/"
        THEN IF i + 1 < Len(source) /\ d \in {"/", "*"} THEN <<>> ELSE <<c>>
        ELSE IF c \in {"(", ")", "{", "}", ",", ".", "-", "+", ";", "*",
                       "?", ":"}
        THEN <<c>>
        ELSE <<>>

TokenTypes(tokens) == [i \in DOMAIN tokens |-> tokens[i].token_type]

RunEnd(source, i) ==
    CHOOSE j \in i..Len(source) :
        /\ \A k \in i..(j - 1) :
                source[k + 1] \in Lower \cup Upper \cup {"_"}
                \/ IsDigit(source[k + 1])
        /\ j < Len(source) =>
                ~(source[j + 1] \in Lower \cup Upper \cup {"_"}
                  \/ IsDigit(source[j + 1]))

\* the kind of token a word is
WordKind(word) ==
    CASE word = <<"a", "n", "d">> -> "And"
      [] word = <<"w", "h", "i", "l", "e">> -> "While"
      [] word = <<"v", "a", "r">> -> "Var"
      [] word = <<"t", "r", "u", "e">> -> "True"
      [] word = <<"p", "r", "i", "n", "t">> -> "Print"
      [] word = <<"o", "r">> -> "Or"
      [] word = <<"n", "i", "l">> -> "Nil"
      [] word = <<"i", "f">> -> "If"
      [] word = <<"f", "o", "r">> -> "For"
      [] word = <<"f", "a", "l", "s", "e">> -> "False"
      [] word = <<"e", "l", "s", "e">> -> "Else"
      [] OTHER -> "Identifier"

Newlines(source) == {i \in DOMAIN source : source[i] = "\n"}

\* C17: on every successful scan the token sequence holds exactly one
\* end-of-input token, it is the last token, and its line is the final line
\* count: 1 plus the number of newline characters of the source, wherever
\* they are (whitespace, string literals, comments).
C17_OneEofWithFinalLine ==
    scanner.ret = "Some" =>
        /\ Cardinality({i \in DOMAIN scanner.returned :
                scanner.returned[i].token_type = "EOF"}) = 1
        /\ scanner.returned[Len(scanner.returned)].token_type = "EOF"
        /\ scanner.returned[Len(scanner.returned)].line =
                1 + Cardinality(Newlines(scanner.source))

\* the text sought starts at position j of the source
StartsAt(source, j, text) ==
    /\ j + Len(text) <= Len(source)
    /\ SubSeq(source, j + 1, j + Len(text)) = text
\* the positions j >= i of the source where the text sought starts
Finds(source, i, text) ==
    {j \in i..Len(source) : StartsAt(source, j, text)}
First(S) == CHOOSE j \in S : \A k \in S : j <= k

\* the source, read from position i where a token may start, holds an
\* unterminated string literal or, outside strings and comments, a character
\* that starts no token
RECURSIVE Malformed(_, _)
Malformed(source, i) ==
    IF i >= Len(source) THEN FALSE
    ELSE IF source[i + 1] \in QuoteChars
    THEN IF Finds(source, i + 1, <<source[i + 1]>>) = {} THEN TRUE
         ELSE Malformed(source,
                        First(Finds(source, i + 1, <<source[i + 1]>>)) + 1)
    ELSE IF StartsAt(source, i, <<"/", "/">>)
    THEN IF Finds(source, i, <<"\n">>) = {} THEN FALSE
         ELSE Malformed(source, First(Finds(source, i, <<"\n">>)))
    ELSE IF StartsAt(source, i, <<"/", "*">>)
    THEN IF Finds(source, i + 2, <<"*", "/">>) = {} THEN FALSE
         ELSE Malformed(source,
                        First(Finds(source, i + 2, <<"*", "/">>)) + 2)
    ELSE IF source[i + 1] \in Lower \cup Upper
    THEN Malformed(source, RunEnd(source, i))
    ELSE IF \/ IsDigit(source[i + 1])
            \/ source[i + 1] \in
                {"(", ")", "{", "}", ",", ".", "-", "+", ";", "*", "?", ":",
                 "/", "=", "!", "<", ">", " ", "\t", "\r", "\n", Nul}
    THEN Malformed(source, i + 1)
    ELSE TRUE

\* C18: if the source holds an unterminated string literal or, outside
\* strings and comments, a character that starts no token, scan_tokens fails
\* and returns no tokens at all; for every other source it succeeds.
C18_FailsIffMalformed ==
    scanner.ret \in {"Some", "None"} =>
        /\ scanner.ret = "None" <=> Malformed(scanner.source, 0)
        /\ scanner.ret = "None" => scanner.returned = <<>>

\* C19: a block comment starts at /* and extends through the first following
\* */, or to the end of input when none follows; whatever the comment holds
\* (* and / included) the scanner emits no token for it, raises no error, and
\* resumes with the first character after the closing */.
C19_BlockCommentSkipped ==
    [][(/\ ScanAt
        /\ StartsAt(scanner.source, scanner.current, <<"/", "*">>))
       => /\ scanner'.ret = "Running"
          /\ scanner'.tokens = scanner.tokens
          /\ diagnostics' = diagnostics
          /\ IF Finds(scanner.source, scanner.current + 2, <<"*", "/">>) = {}
             THEN scanner'.current >= Len(scanner.source)
             ELSE scanner'.current =
                    First(Finds(scanner.source, scanner.current + 2,
                                <<"*", "/">>)) + 2]_vars

----------------------------------------------------------------------------
(* Claims about the Parser, checked under ParseSpec.  given tells how the  *)
(* tokens were built; parser.statements is what parse returned once        *)
(* parser.ret is "Some".                                                   *)

NumberLiteral(n) == Literal(NatToString(n))

\* C12: for every token sequence derived from the expression grammar, parse
\* returns the one expression statement whose tree the grammar levels
\* dictate (* and / below + and -, those below the comparisons, those below
\* == and !=, operators of one level grouped to the left, parentheses as a
\* Grouping, c ? a : b as a Ternary nested to the right); "10 + 12" parses
\* to Expression(Binary(10, +, 12)), "(10 + 12) / 2" and "10 + 12 / 2" to
\* different trees, "true ? 1 : 2" to Ternary(true, 1, 2).
C12_TreeOfGrammarLevels ==
    parser.ret # "Running" =>
        /\ given.form = "expression" =>
            /\ parser.ret = "Some"
            /\ parser.statements = <<Expression(given.tree)>>
        /\ (given.form = "text" /\ given.source = TestBinaryExpr) =>
            /\ parser.ret = "Some"
            /\ parser.statements =
                <<Expression(Binary(NumberLiteral(10), PlusTok,
                                    NumberLiteral(12)))>>
        /\ (given.form = "text" /\ given.source = TestPrecedenceGrouped) =>
            /\ parser.ret = "Some"
            /\ parser.statements =
                <<Expression(Binary(
                    Grouping(Binary(NumberLiteral(10), PlusTok,
                                    NumberLiteral(12))),
                    Punct("Slash", "/", 1), NumberLiteral(2)))>>
            /\ parser.statements #
                parse(scan_tokens(TestPrecedencePlain).sc.returned).val
        /\ (given.form = "text" /\ given.source = TestPrecedencePlain) =>
            /\ parser.ret = "Some"
            /\ parser.statements =
                <<Expression(Binary(NumberLiteral(10), PlusTok,
                    Binary(NumberLiteral(12), Punct("Slash", "/", 1),
                           NumberLiteral(2))))>>
        /\ (given.form = "text" /\ given.source = TestTernary) =>
            /\ parser.ret = "Some"
            /\ parser.statements =
                <<Expression(Ternary(Literal(StrTrue), NumberLiteral(1),
                                     NumberLiteral(2)))>>

\* parse has returned the tree of a - b - c, the first subtraction under
\* the left operand of the second
C12_Witness ==
    /\ given.form = "expression"
    /\ parser.ret = "Some"
    /\ parser.statements = <<Expression(given.tree)>>
    /\ given.tree.expr = "Binary"
    /\ given.tree.operator.token_type = "Minus"
    /\ given.tree.left.expr = "Binary"
    /\ given.tree.left.operator.token_type = "Minus"
    /\ given.tree.right.expr = "Variable"

\* C13: after a declaration fails to parse, parse goes on with the
\* declarations behind the next statement boundary, so that the syntax
\* error of every malformed statement of the input is reported (here each
\* statement is on a line of its own), and parse returns failure.
C13_LaterErrorsReported ==
    (given.form = "parts" /\ parser.ret # "Running") =>
        /\ (\E i \in DOMAIN given.bad : given.bad[i]) <=> parser.ret = "None"
        /\ \A i \in DOMAIN given.bad :
            given.bad[i] =>
                \E k \in DOMAIN diagnostics : diagnostics[k].line = i

\* C14: a print statement, a var declaration and an expression statement
\* followed by any number n >= 0 of semicolons parse successfully, to the
\* statement list parse returns for the statement with exactly one semicolon.
C14_AnyNumberOfSemicolons ==
    (given.form = "semicolons" /\ parser.ret # "Running") =>
        /\ parser.ret = "Some"
        /\ parse(given.base \o <<SemicolonTok(1), EofTok(1)>>).r = "Some"
        /\ parser.statements =
            parse(given.base \o <<SemicolonTok(1), EofTok(1)>>).val

\* the tree the clauses of a for statement and its body are turned into
ForTree(initializer, condition, increment, body) ==
    With(While(IF is_some(condition) THEN unwrap(condition)
               ELSE Literal(StrTrue),
               IF is_some(increment)
               THEN Block(<<body, Expression(unwrap(increment))>>)
               ELSE body),
         LAMBDA loop :
            IF is_some(initializer)
            THEN Block(<<unwrap(initializer), loop>>)
            ELSE loop)

\* C22: for every combination of present and absent clauses, a for
\* statement parses successfully, to the initializer (when present)
\* followed in a Block by a While whose condition is the condition clause
\* (Literal true when absent) and whose body is the body followed in a
\* Block by the increment as an expression statement (when present).
C22_ForDesugars ==
    (given.form = "for" /\ parser.ret # "Running") =>
        /\ parser.ret = "Some"
        /\ parser.statements =
            <<ForTree(given.initializer, given.condition, given.increment,
                      given.body)>>

\* C24: parse returns a statement list only when no syntax diagnostic was
\* reported; a missing ) of a grouping, a missing ( or ) around the
\* condition of an if or a while, a missing } of a block and an operator
\* without right operand each make parse return failure.
C24_ListOnlyWithoutDiagnostic ==
    /\ parser.ret = "Some" => diagnostics = <<>>
    /\ (given.form = "faulty" /\ parser.ret # "Running") =>
            parser.ret = "None"

\* C26: parse terminates: the cursor stays on a token no later than the
\* end-of-input token, no call moves it back, every iteration of the loop
\* of parse that does not end the loop moves it forward (the loops inside
\* one declaration run to their end within the step), and parse returns.
C26_ParseTerminates ==
    /\ [](parser.ret # "none" =>
            /\ parser.current \in 0..(Len(parser.tokens) - 1)
            /\ \A i \in 1..parser.current :
                parser.tokens[i].token_type # "EOF")
    /\ [][parser.ret = "Running" =>
            /\ parser'.current >= parser.current
            /\ parser'.ret = "Running" =>
                    parser'.current > parser.current]_vars
    /\ <>(parser.ret # "Running")

\* parse has skipped the two semicolons behind print 1 in its loop, stands
\* on the end-of-input token and has returned
C26_Witness ==
    /\ given.form = "semicolons"
    /\ given.n = 2
    /\ given.base[1].token_type = "Print"
    /\ parser.ret = "Some"
    /\ parser.current = Len(parser.tokens) - 1
    /\ Parser_peek(Parsing).token_type = "EOF"

\* a statement is written, and its text scanned and parsed, to itself
RoundTrip(stmt) ==
    With(Stmt_fmt(stmt), LAMBDA written :
        /\ written.ok
        /\ With(scan_tokens(written.text), LAMBDA scanned :
            /\ scanned.sc.ret = "Some"
            /\ With(parse(scanned.sc.returned), LAMBDA parsed :
                /\ parsed.r = "Some"
                /\ parsed.val = <<stmt>>)))

\* C20: every statement the parser produces, rendered with its display form
\* and then scanned and parsed again, yields a statement list holding that
\* one statement, structurally equal to the original.
C20_DisplayRoundTrip ==
    parser.ret = "Some" =>
        \A i \in DOMAIN parser.statements : RoundTrip(parser.statements[i])

----------------------------------------------------------------------------
(* Claims about the interpreter, checked under Spec.  One step of Spec is  *)
(* one statement of interpret's loop, run to its end.                      *)

\* the statement declares the name, itself or in a block nested in it
RECURSIVE Declares(_, _)
Declares(stmt, n) ==
    CASE stmt.stmt = "Let" -> stmt.name.lexeme = n
      [] stmt.stmt = "Block" ->
            \E i \in DOMAIN stmt.statements : Declares(stmt.statements[i], n)
      [] OTHER -> FALSE

\* statement i reads name n, the statement before it is a block that
\* declares n, and no statement in front of that block declares n
ReadsBlockLocal(i, n) ==
    /\ i \in 2..Len(statements)
    /\ statements[i] = PrintStmt(Variable(Ident(n)))
    /\ statements[i - 1].stmt = "Block"
    /\ Declares(statements[i - 1], n)
    /\ \A j \in 1..(i - 2) : ~Declares(statements[j], n)

\* C1: after a Block statement has finished successfully, the current
\* environment is the one that was current before the block was entered (the
\* scope chain is as deep as before), whatever the body: no statement at all,
\* nested blocks, and blocks that are the branch of an If or the body of a
\* While.
C1_BlockRestoresEnvironment ==
    [][(/\ (At("Block") \/ At("If") \/ At("While"))
        /\ index' = index + 1
        /\ diagnostics' = diagnostics)
       => Depth(environment') = Depth(environment)]_vars

\* C2: a name declared with var inside a block is not visible after the
\* block: a reference to it placed after the block fails with the undefined
\* variable error, interpret returns failure at that statement and nothing
\* after it is output; for var x = 45; { var y = 45; print x + y; } print x;
\* print y; the output is 90, 45, and then interpret returns failure.
C2_BlockLocalNotVisibleAfter ==
    /\ \A i \in DOMAIN statements, n \in Names :
        ReadsBlockLocal(i, n) =>
            /\ index <= i
            /\ result # "Some"
            /\ (index = i /\ result # "Running") =>
                /\ result = "None"
                /\ diagnostics # <<>>
                /\ diagnostics[Len(diagnostics)] =
                        error(1, "Undefined Variable", n)
    /\ (statements = TestBlockStatements /\ result # "Running") =>
        /\ result = "None"
        /\ index = 4
        /\ output = <<<<"9", "0">>, <<"4", "5">>>>

\* C3: interpret stops at the first statement whose execution fails: it
\* returns failure and no statement executes after the failing one, wherever
\* the failing statement is (top level, block, branch of an If, body of a
\* While).
C3_StopsAtFirstFailure ==
    /\ stmt_failed => result = "None"
    /\ ~ran_late

\* C4: when evaluating the condition of an If or of a While fails, on the
\* first or on a later evaluation, the statement fails and interpret returns
\* failure; the interpreter does not terminate abnormally.
C4_FailingConditionFails ==
    cond_failed => result = "None"

\* C5: evaluating an assignment to a name that no scope of the current chain
\* defines is a runtime failure: interpret returns failure and no later
\* statement executes.
C5_AssignUndefinedFails ==
    (\E k \in DOMAIN diagnostics :
        /\ diagnostics[k].msg = "Undefined Variable"
        /\ diagnostics[k].where_ = at_quoted(diagnostics[k].arg))
    => result = "None"

\* the left operand's value decides the result of the logical operator
Decides(operator, value) ==
    IF operator.token_type = "Or" THEN is_truthy(value) ELSE ~is_truthy(value)

\* C11: for a or b and a and b the left operand is evaluated first; the right
\* operand is evaluated, with its side effects, only when the left value is
\* falsy for or, truthy for and; the result is the left operand's value when
\* it decides and the right operand's value otherwise, never a normalized
\* boolean.
C11_LogicalShortCircuits ==
    [][(/\ At("Print")
        /\ statements[index].expression.expr = "Logical")
       => With(evaluate(statements[index].expression.left, State), LAMBDA l :
            l.r = "Some" =>
                IF Decides(statements[index].expression.operator, l.val)
                THEN /\ output' = Append(output, l.val)
                     /\ environment' = l.s.environment
                     /\ diagnostics' = l.s.diagnostics
                     /\ result' = "Running"
                ELSE With(evaluate(statements[index].expression.right, l.s),
                          LAMBDA r :
                            /\ environment' = r.s.environment
                            /\ diagnostics' = r.s.diagnostics
                            /\ IF r.r = "Some"
                               THEN output' = Append(output, r.val)
                               ELSE output' = output /\ result' = r.r))]_vars

\* var x = 1; print 1 or (x = 2); has printed 1 and x is still 1
C11_Witness ==
    /\ Len(statements) >= 2
    /\ statements[1] = Let(Ident(X), Some(LitOne))
    /\ statements[2] = PrintStmt(Logical(LitOne, OrTok, AssignXTwo))
    /\ index = 3
    /\ output = <<<<"1">>>>
    /\ environment.values[X] = <<"1">>

\* C9: unary minus applied to an operand whose value does not parse as a
\* number fails with the report "Operand must be a number.", and the print
\* statement it stands in prints nothing: interpret returns failure there.
C9_NegateNonNumberFails ==
    [][(/\ At("Print")
        /\ statements[index].expression.expr = "Unary"
        /\ statements[index].expression.operator.token_type = "Minus"
        /\ With(evaluate(statements[index].expression.right, State),
                LAMBDA v : v.r = "Some" /\ ~ParseF64(v.val).ok))
       => /\ result' = "None"
          /\ index' = index
          /\ output' = output
          /\ diagnostics' # <<>>
          /\ diagnostics'[Len(diagnostics')] =
                report(1, <<"a", "t", " ", "'", "-", "'", " ">>,
                       "Operand must be a number.", <<>>)]_vars

\* print -false has returned failure: nothing printed, one line reported
C9_Witness ==
    /\ statements = TestRuntimeError
    /\ result = "None"
    /\ output = <<>>
    /\ diagnostics = <<report(1, <<"a", "t", " ", "'", "-", "'", " ">>,
                              "Operand must be a number.", <<>>)>>

\* C10: executing a var declaration always succeeds and defines the name in
\* the current scope only: bound to the value of the initializer when that
\* evaluates successfully, to nil when there is no initializer or when its
\* evaluation fails; execution continues with the next statement.
C10_VarAlwaysDefines ==
    [][At("Let") =>
        /\ result' = "Running"
        /\ index' = index + 1
        /\ environment'.enclosing = environment.enclosing
        /\ DOMAIN environment'.values =
                DOMAIN environment.values \cup {statements[index].name.lexeme}
        /\ environment'.values[statements[index].name.lexeme] =
                IF statements[index].initializer = None THEN StrNil
                ELSE With(evaluate(unwrap(statements[index].initializer), State),
                          LAMBDA v : IF v.r = "Some" THEN v.val ELSE StrNil)]_vars

\* the value the last assignment statement to n in stmt writes, the
\* statements of a block taken in order and nested blocks included
RECURSIVE LastWrite(_, _)
RECURSIVE LastWriteFrom(_, _, _)
LastWriteFrom(stmts, i, n) ==
    IF i = 0 THEN None
    ELSE IF LastWrite(stmts[i], n) # None THEN LastWrite(stmts[i], n)
    ELSE LastWriteFrom(stmts, i - 1, n)
LastWrite(stmt, n) ==
    CASE stmt.stmt = "Expression" ->
            IF /\ stmt.expression.expr = "Assign"
               /\ stmt.expression.name.lexeme = n
               /\ stmt.expression.value.expr = "Literal"
            THEN Some(stmt.expression.value.value)
            ELSE None
      [] stmt.stmt = "Block" ->
            LastWriteFrom(stmt.statements, Len(stmt.statements), n)
      [] OTHER -> None

\* the condition is true in the current state
Holds(condition) ==
    With(evaluate(condition, State), LAMBDA c :
        c.r = "Some" /\ is_truthy(c.val))

\* the blocks the statement runs from the current state: itself, the branch
\* an If takes, the body of a While whose condition holds
BlocksRun(stmt) ==
    CASE stmt.stmt = "Block" -> {stmt}
      [] stmt.stmt = "If" ->
            IF Holds(stmt.condition)
            THEN (IF stmt.then.stmt = "Block" THEN {stmt.then} ELSE {})
            ELSE IF is_some(stmt.else_) /\ unwrap(stmt.else_).stmt = "Block"
            THEN {unwrap(stmt.else_)}
            ELSE {}
      [] stmt.stmt = "While" ->
            IF Holds(stmt.condition) /\ stmt.body.stmt = "Block"
            THEN {stmt.body} ELSE {}
      [] OTHER -> {}

\* C25: when a statement runs a block (itself, as the branch of an If or as
\* the body of a While, nested blocks included) that assigns to a variable
\* defined outside the block and not declared inside it, and the statement
\* succeeds, the next read of the variable returns the value the last
\* assignment in the block gave it.
C25_BlockAssignmentStays ==
    [][\A n \in Names :
        \A b \in (IF result = "Running" /\ index <= Len(statements)
                  THEN BlocksRun(statements[index]) ELSE {}) :
            (/\ get(environment, Ident(n)).ret # None
             /\ ~Declares(b, n)
             /\ LastWrite(b, n) # None
             /\ index' = index + 1)
            => get(environment', Ident(n)).ret = LastWrite(b, n)]_vars

\* var x = 1; { { x = false; } } has run and x reads false
C25_Witness ==
    /\ Len(statements) >= 2
    /\ statements[1] = Let(Ident(X), Some(LitOne))
    /\ statements[2] = Block(<<Block(<<Expression(Assign(Ident(X),
                                                         LitFalse))>>)>>)
    /\ index = 3
    /\ get(environment, Ident(X)).ret = Some(StrFalse)

\* C23: evaluating the expression of a print or an expression statement
\* never ends in a panic: when a sub-expression fails, the statement
\* returns None and so does interpret.
C23_EvaluationFailsWithoutPanic ==
    [][(At("Print") \/ At("Expression")) => result' # "Panic"]_vars

----------------------------------------------------------------------------
(* Claims about the prompt, checked under LoxSpec *)

\* the lines in front of line k that declare x or assign to it
Writes(lines, k) == {j \in 1..(k - 1) : lines[j] \in {VarLine, AssignLine}}
\* x is declared in front of line k
Declared_x(lines, k) == \E j \in 1..(k - 1) : lines[j] = VarLine
\* the value the last of them gave x
Latest(lines, k) ==
    IF lines[CHOOSE j \in Writes(lines, k) :
                \A i \in Writes(lines, k) : i <= j] = VarLine
    THEN <<"1">> ELSE <<"2">>

\* C21: at the prompt the environment persists from line to line: when a
\* line prints a variable that an earlier line of the session declared, it
\* prints the latest value given to it, and no runtime error is flagged;
\* only the error flag is reset after a line.
C21_PromptKeepsEnvironment ==
    [][(/\ lox.ret = "Running"
        /\ lox.line <= Len(lox.lines)
        /\ lox.lines[lox.line] = PrintLine
        /\ Declared_x(lox.lines, lox.line))
       => /\ output' = Append(output, Latest(lox.lines, lox.line))
          /\ lox'.had_error = FALSE
          /\ lox'.had_runtime_error = lox.had_runtime_error]_vars

====
